---- MODULE Spec2Model ----
(***************************************************************************)
(* A model of the dynamosql SQL front end and database/sql driver.         *)
(*                                                                         *)
(*  - the lexer: the regular expression of parser.Lexer, applied the way   *)
(*    the regexp lexer applies it (leftmost-first match at the head of the *)
(*    remaining input);                                                    *)
(*  - the parser: the grammar in the struct tags of the AST types, run the *)
(*    way the parser generator runs it with the options the parser is      *)
(*    built with (case-insensitive Keyword tokens, unquoting, a lookahead  *)
(*    of 2);                                                               *)
(*  - the printers: the String() methods of the AST nodes;                 *)
(*  - the driver: Driver.Open, Driver.OpenConnector, connector.Connect.    *)
(*                                                                         *)
(* Text is a sequence of one-character strings.                            *)
(***************************************************************************)
EXTENDS Integers, Sequences, FiniteSets, TLC

VARIABLES
    src,        \* the text given to the lexer or to Parse
    lexed,      \* the result of the lexer on src, or NotRun
    stmt,       \* parser run: the statement under test, as words
    res,        \* parser run: the result of Parse on the statement's text
    res2,       \* parser run: the result of Parse on the re-cased text
    printed,    \* parser run: String() of the node under test
    res3,       \* parser run: the result of Parse on the re-printed text
    drivers,    \* driver run: the Driver values
    connectors, \* driver run: the connectors OpenConnector returned
    conns,      \* driver run: the connections Connect returned
    built,      \* driver run: how many clients and table loaders were built
    lastCall    \* driver run: the last call and whether it gave an error

parserVars == <<stmt, res, res2, printed, res3>>

driverVars == <<drivers, connectors, conns, built, lastCall>>

vars == <<src, lexed, stmt, res, res2, printed, res3,
          drivers, connectors, conns, built, lastCall>>

NotRun == [run |-> FALSE]

----------------------------------------------------------------------------
(* Characters                                                              *)

LowerLetters ==
    <<"a","b","c","d","e","f","g","h","i","j","k","l","m",
      "n","o","p","q","r","s","t","u","v","w","x","y","z">>

UpperLetters ==
    <<"A","B","C","D","E","F","G","H","I","J","K","L","M",
      "N","O","P","Q","R","S","T","U","V","W","X","Y","Z">>

Range(s) == {s[i] : i \in DOMAIN s}

Letters == Range(LowerLetters) \cup Range(UpperLetters)

Digits == {"0","1","2","3","4","5","6","7","8","9"}

\* \w, the characters on which \b decides
WordChars == Letters \cup Digits \cup {"_"}

\* \s
SpaceChars == {" ", "\t", "\n", "\r", "\f"}

ToUpper(c) ==
    IF c \in Range(LowerLetters)
    THEN UpperLetters[CHOOSE i \in DOMAIN LowerLetters : LowerLetters[i] = c]
    ELSE c

ToLower(c) ==
    IF c \in Range(UpperLetters)
    THEN LowerLetters[CHOOSE i \in DOMAIN UpperLetters : UpperLetters[i] = c]
    ELSE c

UpperText(s) == [i \in DOMAIN s |-> ToUpper(s[i])]

LowerText(s) == [i \in DOMAIN s |-> ToLower(s[i])]

\* strings.EqualFold on ASCII text
EqualFold(s, t) == UpperText(s) = UpperText(t)

\* the text from position i on
Drop(s, i) == SubSeq(s, i, Len(s))

\* the number of characters of s from position from on that lie in set S
RunLen(s, from, S) ==
    CHOOSE n \in 0..(Len(s) + 1 - from) :
        /\ \A i \in from..(from + n - 1) : s[i] \in S
        /\ (from + n > Len(s) \/ s[from + n] \notin S)

\* the index of the first occurrence of c in s at or after from, or 0
IndexFrom(s, from, c) ==
    IF \E i \in from..Len(s) : s[i] = c
    THEN CHOOSE i \in from..Len(s) : s[i] = c /\ \A j \in from..(i - 1) : s[j] # c
    ELSE 0

----------------------------------------------------------------------------
(* Characters the module cannot write as a string literal                  *)

\* the back quote that delimits a quoted identifier
BackQuote == "BACKQUOTE"

----------------------------------------------------------------------------
(* Spelling of the words of the lexer and of the grammar                   *)

\* the keywords of the lexer's pattern
SpellKeywords ==
      "SELECT" :> <<"S","E","L","E","C","T">>
   @@ "FROM" :> <<"F","R","O","M">>
   @@ "WHERE" :> <<"W","H","E","R","E">>
   @@ "LIMIT" :> <<"L","I","M","I","T">>
   @@ "OFFSET" :> <<"O","F","F","S","E","T">>
   @@ "INSERT" :> <<"I","N","S","E","R","T">>
   @@ "INTO" :> <<"I","N","T","O">>
   @@ "VALUES" :> <<"V","A","L","U","E","S">>
   @@ "TRUE" :> <<"T","R","U","E">>
   @@ "FALSE" :> <<"F","A","L","S","E">>
   @@ "NULL" :> <<"N","U","L","L">>
   @@ "NOT" :> <<"N","O","T">>
   @@ "BETWEEN" :> <<"B","E","T","W","E","E","N">>
   @@ "AND" :> <<"A","N","D">>
   @@ "OR" :> <<"O","R">>
   @@ "USE" :> <<"U","S","E">>
   @@ "INDEX" :> <<"I","N","D","E","X">>
   @@ "ASC" :> <<"A","S","C">>
   @@ "DESC" :> <<"D","E","S","C">>
   @@ "CREATE" :> <<"C","R","E","A","T","E">>
   @@ "TABLE" :> <<"T","A","B","L","E">>
   @@ "HASH" :> <<"H","A","S","H">>
   @@ "RANGE" :> <<"R","A","N","G","E">>
   @@ "PROJECTION" :> <<"P","R","O","J","E","C","T","I","O","N">>
   @@ "PROVISIONED" :> <<"P","R","O","V","I","S","I","O","N","E","D">>
   @@ "THROUGHPUT" :> <<"T","H","R","O","U","G","H","P","U","T">>
   @@ "READ" :> <<"R","E","A","D">>
   @@ "WRITE" :> <<"W","R","I","T","E">>
   @@ "GLOBAL" :> <<"G","L","O","B","A","L">>
   @@ "LOCAL" :> <<"L","O","C","A","L">>
   @@ "SECONDARY" :> <<"S","E","C","O","N","D","A","R","Y">>
   @@ "STRING" :> <<"S","T","R","I","N","G">>
   @@ "NUMBER" :> <<"N","U","M","B","E","R">>
   @@ "BINARY" :> <<"B","I","N","A","R","Y">>
   @@ "RETURNING" :> <<"R","E","T","U","R","N","I","N","G">>
   @@ "NONE" :> <<"N","O","N","E">>
   @@ "ALL_OLD" :> <<"A","L","L","_","O","L","D">>
   @@ "UPDATED_OLD" :> <<"U","P","D","A","T","E","D","_","O","L","D">>
   @@ "ALL_NEW" :> <<"A","L","L","_","N","E","W">>
   @@ "UPDATED_NEW" :> <<"U","P","D","A","T","E","D","_","N","E","W">>
   @@ "DELETE" :> <<"D","E","L","E","T","E">>
   @@ "CHECK" :> <<"C","H","E","C","K">>

\* the other words and operators the struct tags and the String methods name
SpellGrammar ==
      "REPLACE" :> <<"R","E","P","L","A","C","E">>
   @@ "IN" :> <<"I","N">>
   @@ "KEY" :> <<"K","E","Y">>
   @@ "KEYS" :> <<"K","E","Y","S">>
   @@ "ONLY" :> <<"O","N","L","Y">>
   @@ "ALL" :> <<"A","L","L">>
   @@ "INCLUDE" :> <<"I","N","C","L","U","D","E">>
   @@ "document" :> <<"d","o","c","u","m","e","n","t">>
   @@ "<>" :> <<"<",">">>
   @@ "!=" :> <<"!","=">>
   @@ "<=" :> <<"<","=">>
   @@ ">=" :> <<">","=">>
   @@ "true" :> <<"t","r","u","e">>
   @@ "false" :> <<"f","a","l","s","e">>

\* the literals and names of the texts that are parsed (in the name of a
\* word, ~ stands for the back quote)
SpellLiterals ==
      "1.0" :> <<"1",".","0">>
   @@ "1e2" :> <<"1","e","2">>
   @@ "+5" :> <<"+","5">>
   @@ "007" :> <<"0","0","7">>
   @@ "-3" :> <<"-","3">>
   @@ ".5" :> <<".","5">>
   @@ "12.50" :> <<"1","2",".","5","0">>
   @@ "10" :> <<"1","0">>
   @@ "12" :> <<"1","2">>
   @@ "1.5" :> <<"1",".","5">>
   @@ "1e6" :> <<"1","e","6">>
   @@ "0.00001" :> <<"0",".","0","0","0","0","1">>
   @@ "size" :> <<"s","i","z","e">>
   @@ "idx" :> <<"i","d","x">>
   @@ "'x'" :> <<"'","x","'">>
   @@ "\"x\"" :> <<"\"","x","\"">>
   @@ "'a\"b'" :> <<"'","a","\"","b","'">>
   @@ "''" :> <<"'","'">>
   @@ "'NULL'" :> <<"'","N","U","L","L","'">>
   @@ "~select~" :> <<BackQuote,"s","e","l","e","c","t",BackQuote>>
   @@ "~from~" :> <<BackQuote,"f","r","o","m",BackQuote>>
   @@ "~a b~" :> <<BackQuote,"a"," ","b",BackQuote>>
   @@ "~t~" :> <<BackQuote,"t",BackQuote>>

Spell == SpellKeywords @@ SpellGrammar @@ SpellLiterals

\* the text of a word: its spelling, or the one character it is
W(s) == IF s \in DOMAIN Spell THEN Spell[s] ELSE <<s>>

----------------------------------------------------------------------------
(* Lexer                                                                   *)

\* the alternatives of the Keyword group, in the order of the pattern
Keywords ==
   << "SELECT", "FROM", "WHERE", "LIMIT", "OFFSET", "INSERT",
      "INTO", "VALUES", "TRUE", "FALSE", "NULL", "NOT",
      "BETWEEN", "AND", "OR", "USE", "INDEX", "ASC",
      "DESC", "CREATE", "TABLE", "HASH", "RANGE", "PROJECTION",
      "PROVISIONED", "THROUGHPUT", "READ", "WRITE", "GLOBAL", "LOCAL",
      "INDEX", "SECONDARY", "STRING", "NUMBER", "BINARY", "RETURNING",
      "NONE", "ALL_OLD", "UPDATED_OLD", "ALL_NEW", "UPDATED_NEW", "DELETE",
      "CHECK" >>

IsWordAt(b, i) == i >= 1 /\ i <= Len(b) /\ b[i] \in WordChars

\* \b between b[n] and b[n+1]; the ends of the text count as non-word
WordBoundary(b, n) == IsWordAt(b, n) # IsWordAt(b, n + 1)

HasPrefixFold(b, w) ==
    /\ Len(b) >= Len(w)
    /\ \A i \in DOMAIN w : ToUpper(b[i]) = ToUpper(w[i])

HasPrefix(b, w) ==
    /\ Len(b) >= Len(w)
    /\ \A i \in DOMAIN w : b[i] = w[i]

\* (\s+)
MatchSpace(b) == RunLen(b, 1, SpaceChars)

\* the texts of the alternatives of the Keyword group
KeywordTexts == [i \in DOMAIN Keywords |-> W(Keywords[i])]

\* the least of a set of numbers
Least(ns) == CHOOSE n \in ns : \A m \in ns : n <= m

\* the length of the first of the alternatives ws that is in hits
FirstLen(ws, hits) == IF hits = {} THEN 0 ELSE Len(ws[Least(hits)])

\* the alternatives ws at the head of b without the closing \b (the
\* pattern of a lexer that forgets the word boundary)
KeywordsNoBoundary(b, ws) == {i \in DOMAIN ws : HasPrefixFold(b, ws[i])}

\* the alternatives ws that match at the head of b between two \b
KeywordsAt(b, ws) ==
    {i \in DOMAIN ws :
        /\ WordBoundary(b, 0)
        /\ HasPrefixFold(b, ws[i])
        /\ WordBoundary(b, Len(ws[i]))}

\* \b(?P<Keyword>(?i)SELECT|FROM|...)\b
MatchKeyword(b) == FirstLen(KeywordTexts, KeywordsAt(b, KeywordTexts))

\* (?P<QuotedIdent>BACKTICK[^BACKTICK]+BACKTICK)
MatchQuotedIdent(b) ==
    IF Len(b) >= 3 /\ b[1] = BackQuote /\ b[2] # BackQuote
    THEN IndexFrom(b, 3, BackQuote)
    ELSE 0

\* (?P<Ident>[a-zA-Z_][a-zA-Z0-9_]*)
MatchIdent(b) ==
    IF Len(b) >= 1 /\ b[1] \in Letters \cup {"_"}
    THEN RunLen(b, 1, WordChars)
    ELSE 0

\* \d*\.?\d+ from position from: the length matched, 0 when nothing matches
MatchMantissa(b, from) ==
    LET int  == RunLen(b, from, Digits)
        frac == IF from + int <= Len(b) /\ b[from + int] = "."
                THEN RunLen(b, from + int + 1, Digits) ELSE 0
    IN  IF frac > 0 THEN int + 1 + frac ELSE int

\* ([eE][-+]?\d+)? from position from
MatchExponent(b, from) ==
    IF from <= Len(b) /\ b[from] \in {"e", "E"}
    THEN LET sign == IF from + 1 <= Len(b) /\ b[from + 1] \in {"-", "+"} THEN 1 ELSE 0
             digs == RunLen(b, from + 1 + sign, Digits)
         IN  IF digs > 0 THEN 1 + sign + digs ELSE 0
    ELSE 0

\* (?P<Number>[-+]?\d*\.?\d+([eE][-+]?\d+)?)
MatchNumber(b) ==
    LET sign == IF Len(b) >= 1 /\ b[1] \in {"-", "+"} THEN 1 ELSE 0
        mant == MatchMantissa(b, 1 + sign)
    IN  IF mant = 0 THEN 0
        ELSE sign + mant + MatchExponent(b, 1 + sign + mant)

\* (?P<String>QUOTE[^QUOTE]*QUOTE|DQUOTE[^DQUOTE]*DQUOTE)
MatchString(b) ==
    IF Len(b) >= 2 /\ b[1] \in {"'", "\""}
    THEN IndexFrom(b, 2, b[1])
    ELSE 0

OperatorChars ==
    {"-", "+", "*", "/", "%", ":", "?", ",", ".", "(", ")", "=", "<", ">",
     "[", "]", "{", "}"}

\* (?P<Operators><>|!=|<=|>=|[-+*/%:?,.()=<>\[\]{}])
MatchOperators(b) ==
    IF \E w \in {"<>", "!=", "<=", ">="} : HasPrefix(b, W(w)) THEN 2
    ELSE IF Len(b) >= 1 /\ b[1] \in OperatorChars THEN 1
    ELSE 0

\* |;
MatchSemicolon(b) == IF Len(b) >= 1 /\ b[1] = ";" THEN 1 ELSE 0

\* the groups of the pattern in its order; the last alternative, the
\* semicolon, is in no named group
Groups == <<"Space", "Keyword", "QuotedIdent", "Ident", "Number", "String", "Operators", "">>

\* the first alternative with a match, lens being the length each
\* alternative matches: its group and its length, a length of 0 when no
\* alternative matches
FirstOf(lens) ==
    IF \A i \in DOMAIN lens : lens[i] = 0 THEN [group |-> "", len |-> 0]
    ELSE [group |-> Groups[Least({i \in DOMAIN lens : lens[i] > 0})],
          len   |-> lens[Least({i \in DOMAIN lens : lens[i] > 0})]]

\* The first alternative of the pattern that matches at the head of b.
\* len = 0: no alternative matches, the lexer reports an invalid token.
FirstMatch(b) ==
    FirstOf(<<MatchSpace(b), MatchKeyword(b), MatchQuotedIdent(b), MatchIdent(b),
              MatchNumber(b), MatchString(b), MatchOperators(b), MatchSemicolon(b)>>)

RECURSIVE UnquoteChars(_, _)
\* strconv.UnquoteChar over the text s between quotes q: a backslash
\* escapes itself and the quote; at the end of the text it is an error
\* (the texts of the model hold a backslash in no other place)
UnquoteChars(s, q) ==
    IF s = <<>> THEN [ok |-> TRUE, value |-> <<>>]
    ELSE IF s[1] # "\\"
    THEN LET r == UnquoteChars(Tail(s), q)
         IN  [ok |-> r.ok, value |-> <<s[1]>> \o r.value]
    ELSE IF Len(s) >= 2 /\ s[2] \in {"\\", q}
    THEN LET r == UnquoteChars(SubSeq(s, 3, Len(s)), q)
         IN  [ok |-> r.ok, value |-> <<s[2]>> \o r.value]
    ELSE [ok |-> FALSE, value |-> <<>>]

\* participle.Unquote("String"): the text between the quotes, unescaped
Unquote(v) == UnquoteChars(SubSeq(v, 2, Len(v) - 1), v[1])

\* UnquoteIdent: t.Value[1 : len(t.Value)-1]
UnquoteIdent(v) == SubSeq(v, 2, Len(v) - 1)

\* the token mappers, in the order the parser is built with
MapToken(t) ==
    IF t.type = "String" THEN [t EXCEPT !.value = Unquote(t.value).value]
    ELSE IF t.type = "QuotedIdent" THEN [t EXCEPT !.value = UnquoteIdent(t.value)]
    ELSE t

\* a mapper's error ends the parse
MapFails(t) == t.type = "String" /\ ~Unquote(t.value).ok

\* one step of the lexer's loop on text b, m being the match at its head:
\* text of the unnamed first group is skipped
LexOne(b, m) ==
    IF m.len = 0 THEN [ok |-> FALSE, toks |-> <<>>, rest |-> b]
    ELSE [ok   |-> TRUE,
          toks |-> IF m.group = "Space" THEN <<>>
                   ELSE <<[type |-> m.group, value |-> SubSeq(b, 1, m.len)]>>,
          rest |-> Drop(b, m.len + 1)]

RECURSIVE LexUpTo(_, _)
\* The lexer's loop, at most k matches at the head of text b: [ok, toks,
\* rest]; ok is FALSE when no alternative matches.  (The k matches are
\* made as two halves, one after the other, which keeps the evaluation
\* shallow.)
LexUpTo(b, k) ==
    LET head == LexUpTo(b, k \div 2)
        tail == LexUpTo(head.rest, k - (k \div 2))
    IN  CASE b = <<>> \/ k = 0 -> [ok |-> TRUE, toks |-> <<>>, rest |-> b]
          [] k = 1    -> LexOne(b, FirstMatch(b))
          [] ~head.ok -> head
          [] OTHER -> [ok |-> tail.ok, toks |-> head.toks \o tail.toks, rest |-> tail.rest]

\* the tokens of a run of the loop that came to the end of the text
Tokens(all) == [ok |-> all.ok, toks |-> IF all.ok THEN all.toks ELSE <<>>]

\* The tokens of text b as the regexp lexer cuts them, before mapping
LexRaw(b) == Tokens(LexUpTo(b, Len(b)))

\* the tokens as the parser's mappers leave them; a mapper's error ends
\* the parse
Mapped(raw) ==
    IF raw.ok /\ \A i \in DOMAIN raw.toks : ~MapFails(raw.toks[i])
    THEN [ok |-> TRUE, toks |-> [i \in DOMAIN raw.toks |-> MapToken(raw.toks[i])]]
    ELSE [ok |-> FALSE, toks |-> <<>>]

\* Lexer with the parser's token mappers applied
Lex(b) == Mapped(LexRaw(b))
----------------------------------------------------------------------------
(* Conversion of captured token text to the type of the field             *)

DigitChars == <<"0","1","2","3","4","5","6","7","8","9">>

DigitVal(c) == (CHOOSE i \in DOMAIN DigitChars : DigitChars[i] = c) - 1

RECURSIVE DigitsVal(_)
\* the number a sequence of decimal digits spells
DigitsVal(ds) ==
    IF ds = <<>> THEN 0
    ELSE 10 * DigitsVal(SubSeq(ds, 1, Len(ds) - 1)) + DigitVal(ds[Len(ds)])

IsSign(c) == c \in {"-", "+"}

\* strconv.ParseInt on decimal text: an optional sign and digits, no more
ParseInt(v) ==
    LET s  == IF Len(v) >= 1 /\ IsSign(v[1]) THEN 1 ELSE 0
        ds == Drop(v, s + 1)
    IN  IF ds # <<>> /\ \A i \in DOMAIN ds : ds[i] \in Digits
        THEN [ok |-> TRUE,
              n  |-> IF s = 1 /\ v[1] = "-" THEN 0 - DigitsVal(ds) ELSE DigitsVal(ds)]
        ELSE [ok |-> FALSE, n |-> 0]

\* s without its leading zeros
StripLeft(s) == Drop(s, RunLen(s, 1, {"0"}) + 1)

\* s without its trailing zeros
StripRight(s) ==
    SubSeq(s, 1, CHOOSE n \in 0..Len(s) :
                     /\ \A i \in (n + 1)..Len(s) : s[i] = "0"
                     /\ (n = 0 \/ s[n] # "0"))

\* strconv.ParseFloat on the text of a Number token.  A float64 is held as
\* its decimal digits: the value is 0.d1d2...dn * 10^dp, without leading or
\* trailing zero digits (exact for the short numbers of the model, which a
\* float64 tells apart).
ParseFloat(v) ==
    LET s     == IF Len(v) >= 1 /\ IsSign(v[1]) THEN 1 ELSE 0
        ilen  == RunLen(v, s + 1, Digits)
        int   == SubSeq(v, s + 1, s + ilen)
        dot   == IF s + ilen + 1 <= Len(v) /\ v[s + ilen + 1] = "." THEN 1 ELSE 0
        flen  == IF dot = 1 THEN RunLen(v, s + ilen + 2, Digits) ELSE 0
        frac  == SubSeq(v, s + ilen + 2, s + ilen + 1 + flen)
        epos  == s + ilen + dot + flen + 1
        exp   == IF epos <= Len(v) THEN ParseInt(Drop(v, epos + 1)).n ELSE 0
        all   == int \o frac
        lead  == RunLen(all, 1, {"0"})
        digs  == StripRight(StripLeft(all))
    IN  [neg |-> s = 1 /\ v[1] = "-",
         d   |-> digs,
         dp  |-> IF digs = <<>> THEN 0 ELSE ilen - lead + exp]

\* Boolean.Capture
BooleanCapture(values) == UpperText(values[1]) = W("TRUE")

\* ScanDescending.Capture
ScanDescendingCapture(values) == UpperText(values[1]) = W("DESC")

RECURSIVE ConcatRange(_, _, _)
\* the texts ss[lo] .. ss[hi] one after the other
ConcatRange(ss, lo, hi) ==
    IF lo > hi THEN <<>>
    ELSE IF lo = hi THEN ss[lo]
    ELSE ConcatRange(ss, lo, (lo + hi) \div 2) \o ConcatRange(ss, ((lo + hi) \div 2) + 1, hi)

\* the texts of a sequence joined
Flatten(ss) == ConcatRange(ss, 1, Len(ss))

\* the texts of ts joined with sep between them (strings.Join)
Join(ts, sep) ==
    Flatten([i \in 1..(2 * Len(ts) - 1) |-> IF i % 2 = 1 THEN ts[(i + 1) \div 2] ELSE sep])

----------------------------------------------------------------------------
(* The parser the library builds from the struct tags                      *)

\* participle.UseLookahead(2)
Lookahead == 2

\* participle.CaseInsensitive("Keyword")
CaseInsensitive == {"Keyword"}

EOFToken == [type |-> "EOF", value |-> <<>>]

\* the token after cur consumed ones
Peek(toks, cur) == IF cur + 1 <= Len(toks) THEN toks[cur + 1] ELSE EOFToken

\* a literal of the grammar against a token
LiteralMatches(tok, s) ==
    /\ tok.type # "EOF"
    /\ IF tok.type \in CaseInsensitive THEN EqualFold(tok.value, s) ELSE tok.value = s

\* A struct value: its type and the fields the parse has set.  A field that
\* no capture filled is absent (the zero value: nil, "", false).
Struct(name, fields) == [type |-> name, f |-> fields]

Has(node, fld) == fld \in DOMAIN node.f

NoFields == [fld \in {} |-> FALSE]

\* Results of a grammar node at a cursor: st is "ok" (matched), "nil" (no
\* match and no error) or "err"; cur counts the tokens consumed; v is the
\* text matched, the value built, or the fields captured for the struct.
Ok(cur, v) == [st |-> "ok", cur |-> cur, v |-> v]

Nil(cur) == [st |-> "nil", cur |-> cur, v |-> NoFields]

Err(cur) == [st |-> "err", cur |-> cur, v |-> NoFields]

RECURSIVE Element(_, _, _)

\* a quoted literal of a tag, with the text of the token it matches
Literal(toks, cur, s) ==
    IF LiteralMatches(Peek(toks, cur), W(s)) THEN Ok(cur + 1, Peek(toks, cur).value)
    ELSE Nil(cur)

\* one of several literals, ( "a" | "b" | ... )
OneOf(toks, cur, ss) ==
    IF \E s \in ss : Element(s, toks, cur).st = "ok"
    THEN Ok(cur + 1, Peek(toks, cur).value) ELSE Nil(cur)

\* what a literal gives when it is not captured
Uncaptured(r) == IF r.st = "ok" THEN Ok(r.cur, NoFields) ELSE r

\* a literal that is not captured
Match(toks, cur, s) == Uncaptured(Element(s, toks, cur))

\* a token reference of a tag: Ident, QuotedIdent, Number, String
Token(toks, cur, types) ==
    IF Peek(toks, cur).type \in types THEN Ok(cur + 1, Peek(toks, cur).value)
    ELSE Nil(cur)

\* @: the value matched goes to field fld
Capture(fld, r) == IF r.st = "ok" THEN Ok(r.cur, fld :> r.v) ELSE r

\* a slice field takes the values in order; with none it stays nil
ListField(fld, vs) == IF vs = <<>> THEN NoFields ELSE fld :> vs

\* An element of a sequence after the first: matching nothing there is an
\* error at the cursor reached (from).
Later(r, from) == IF r.st = "nil" THEN Err(from) ELSE r

\* the value of a struct whose grammar gave result r with its fields
StructOf(name, r) == IF r.st = "ok" THEN Ok(r.cur, Struct(name, r.v)) ELSE r

\* a branch that failed at cursor at is given up for good when it got
\* further than the lookahead allows
Stop(from, at) == at > from + Lookahead

\* A branch of a disjunction, an option or a repetition is taken when it
\* matches, and also when it fails beyond the lookahead.
Taken(r, from) == r.st = "ok" \/ (r.st = "err" /\ Stop(from, r.cur))

\* no branch of a disjunction was taken: the first error, if any
NoneTaken(failed, cur) == IF failed THEN Err(cur) ELSE Nil(cur)

\* [ ... ] and ( ... )?
Optional(r, from) == IF Taken(r, from) THEN r ELSE Ok(from, NoFields)

----------------------------------------------------------------------------
(* One parser per struct, read off its tags.  Element("X", toks, cur) is the      *)
(* result of the grammar of struct X at cursor cur of the tokens.  In each  *)
(* the elements are named in the order of the tag, every one starting at    *)
(* the cursor the one before it reached.  The arms of a CASE are read in    *)
(* order: the first whose guard holds decides.                             *)

RECURSIVE Repeat(_, _, _)

\* the literal that opens each round of a repeated group
Separator(kind) ==
    CASE kind = "Index" -> "["
      [] kind \in {"DotIdent", "DotFragment"} -> "."
      [] kind = "AndCondition" -> "AND"
      [] kind = "OrAndExpression" -> "OR"
      [] OTHER -> ","

\* ( sep element )*: the values of the elements matched, in order.  A round
\* that fails within the lookahead ends the repetition without an error.
\* (The separator is one token: the element starts at cur + 1.)
Repeat(kind, toks, cur) ==
    LET el   == Element(kind, toks, cur + 1)
        more == Repeat(kind, toks, el.cur)
    IN  CASE Element(Separator(kind), toks, cur).st # "ok" -> Ok(cur, <<>>)
          [] el.st = "ok" /\ more.st = "ok" -> Ok(more.cur, <<el.v>> \o more.v)
          [] el.st = "ok" -> more
          [] Taken(el, cur) -> el
          [] OTHER -> Ok(cur, <<>>)

\* Scalar: the four alternatives of its fields
Scalar(toks, cur) ==
    LET tok == Peek(toks, cur)
    IN  CASE tok.type = "Number" -> Ok(cur + 1, "Number" :> ParseFloat(tok.value))
          [] tok.type = "String" -> Ok(cur + 1, "Str" :> tok.value)
          [] OneOf(toks, cur, {"TRUE", "FALSE"}).st = "ok" ->
                 Ok(cur + 1, "Boolean" :> BooleanCapture(<<tok.value>>))
          [] Element("NULL", toks, cur).st = "ok" -> Ok(cur + 1, "Null" :> TRUE)
          [] OTHER -> Nil(cur)

\* Value: the embedded Scalar, then PlaceHolder and PositionalPlaceholder
ValueAlternatives(toks, cur) ==
    LET sc    == Element("Scalar", toks, cur)
        colon == Element(":", toks, cur)
        name  == Token(toks, colon.cur, {"Ident"})
        pos   == Match(toks, cur, "?")
    IN  CASE sc.st = "ok"    -> sc
          [] colon.st = "ok" /\ name.st = "ok" ->
                 Ok(name.cur, "PlaceHolder" :> (colon.v \o name.v))
          [] pos.st = "ok"   -> Ok(pos.cur, "PositionalPlaceholder" :> TRUE)
          [] OTHER -> NoneTaken(colon.st = "ok", cur)

ParseValue(toks, cur) == StructOf("Value", ValueAlternatives(toks, cur))

\* JSONValue: the embedded Scalar, then Object and Array
ParseJSONValue(toks, cur) ==
    LET sc  == Element("Scalar", toks, cur)
        obj == Element("JSONObject", toks, cur)
        arr == Element("JSONArray", toks, cur)
    IN  CASE sc.st = "ok"    -> StructOf("JSONValue", sc)
          [] Taken(obj, cur) -> StructOf("JSONValue", Capture("Object", obj))
          [] Taken(arr, cur) -> StructOf("JSONValue", Capture("Array", arr))
          [] OTHER -> NoneTaken(obj.st = "err" \/ arr.st = "err", cur)

ParseJSONObjectEntry(toks, cur) ==
    LET key   == Token(toks, cur, {"Ident", "String"})
        colon == Match(toks, key.cur, ":")
        val   == Element("JSONValue", toks, colon.cur)
    IN  CASE key.st # "ok"   -> key
          [] colon.st # "ok" -> Later(colon, key.cur)
          [] val.st # "ok"   -> Later(val, colon.cur)
          [] OTHER -> Ok(val.cur, Struct("JSONObjectEntry",
                                         ("Key" :> key.v) @@ ("Value" :> val.v)))

\* the group  ( @@ ( "," @@ )* ","? )?  of JSONObject and JSONArray, its
\* elements being of kind first and of kind more
Entries(first, more, toks, cur) ==
    LET head  == Element(first, toks, cur)
        tail  == Repeat(more, toks, head.cur)
        comma == Optional(Match(toks, tail.cur, ","), tail.cur)
    IN  CASE head.st # "ok" -> Optional(head, cur)
          [] tail.st # "ok" -> Optional(tail, cur)
          [] OTHER -> Ok(comma.cur, "Entries" :> (<<head.v>> \o tail.v))

ParseJSONObject(toks, cur) ==
    LET open    == Match(toks, cur, "{")
        entries == Element("ObjectEntries", toks, open.cur)
        close   == Match(toks, entries.cur, "}")
    IN  CASE open.st # "ok"    -> open
          [] entries.st # "ok" -> entries
          [] close.st # "ok"   -> Later(close, entries.cur)
          [] OTHER -> Ok(close.cur, Struct("JSONObject", entries.v))

ParseJSONArray(toks, cur) ==
    LET open    == Match(toks, cur, "[")
        entries == Element("ArrayEntries", toks, open.cur)
        close   == Match(toks, entries.cur, "]")
    IN  CASE open.st # "ok"    -> open
          [] entries.st # "ok" -> entries
          [] close.st # "ok"   -> Later(close, entries.cur)
          [] OTHER -> Ok(close.cur, Struct("JSONArray", entries.v))

\* the Number tokens of Indexes as ints
IndexValues(vs) == [i \in DOMAIN vs |-> ParseInt(vs[i]).n]

ParsePathFragment(toks, cur) ==
    LET sym == Token(toks, cur, {"Ident", "QuotedIdent"})
        idx == Repeat("Index", toks, sym.cur)
    IN  CASE sym.st # "ok" -> sym
          [] idx.st # "ok" -> idx
          [] \E i \in DOMAIN idx.v : ~ParseInt(idx.v[i]).ok -> Err(idx.cur)
          [] OTHER -> Ok(idx.cur, Struct("PathFragment",
                          ("Symbol" :> sym.v) @@ ListField("Indexes", IndexValues(idx.v))))

ParseDocumentPath(toks, cur) ==
    LET first == Element("PathFragment", toks, cur)
        more  == Repeat("DotFragment", toks, first.cur)
    IN  CASE first.st # "ok" -> first
          [] more.st # "ok"  -> more
          [] OTHER -> Ok(more.cur, Struct("DocumentPath",
                                          "Fragment" :> (<<first.v>> \o more.v)))

ParseOperand(toks, cur) ==
    LET val == Element("Value", toks, cur)
        sym == Element("DocumentPath", toks, cur)
    IN  CASE Taken(val, cur) -> StructOf("Operand", Capture("Value", val))
          [] Taken(sym, cur) -> StructOf("Operand", Capture("SymbolRef", sym))
          [] OTHER -> NoneTaken(val.st = "err" \/ sym.st = "err", cur)

ParseBetween(toks, cur) ==
    LET start == Element("Operand", toks, cur)
        and   == Match(toks, start.cur, "AND")
        end   == Element("Operand", toks, and.cur)
    IN  CASE start.st # "ok" -> start
          [] and.st # "ok"   -> Later(and, start.cur)
          [] end.st # "ok"   -> Later(end, and.cur)
          [] OTHER -> Ok(end.cur, Struct("Between", ("Start" :> start.v) @@ ("End" :> end.v)))

CompareOperators == {"<>", "<=", ">=", "=", "<", ">", "!="}

ParseCompare(toks, cur) ==
    LET op      == OneOf(toks, cur, CompareOperators)
        operand == Element("Operand", toks, op.cur)
    IN  CASE op.st # "ok"      -> op
          [] operand.st # "ok" -> Later(operand, op.cur)
          [] OTHER -> Ok(operand.cur, Struct("Compare",
                             ("Operator" :> op.v) @@ ("Operand" :> operand.v)))

ParseIn(toks, cur) ==
    LET first == Element("Value", toks, cur)
        more  == Repeat("CommaValue", toks, first.cur)
    IN  CASE first.st # "ok" -> first
          [] more.st # "ok"  -> more
          [] OTHER -> Ok(more.cur, Struct("In", "Values" :> (<<first.v>> \o more.v)))

\* "BETWEEN" @@
BetweenRange(toks, cur) ==
    LET between == Match(toks, cur, "BETWEEN")
        range   == Element("Between", toks, between.cur)
    IN  IF between.st = "ok" THEN Capture("Between", Later(range, between.cur))
        ELSE between

\* "IN" "(" @@ ")"
InList(toks, cur) ==
    LET in    == Match(toks, cur, "IN")
        open  == Match(toks, in.cur, "(")
        list  == Element("In", toks, open.cur)
        close == Match(toks, list.cur, ")")
    IN  CASE in.st # "ok"    -> in
          [] open.st # "ok"  -> Later(open, in.cur)
          [] list.st # "ok"  -> Later(list, open.cur)
          [] close.st # "ok" -> Later(close, list.cur)
          [] OTHER -> Ok(close.cur, "In" :> list.v)

ParseConditionRHS(toks, cur) ==
    LET cmp == Element("Compare", toks, cur)
        btw == Element("BetweenRange", toks, cur)
        inl == Element("InList", toks, cur)
    IN  CASE Taken(cmp, cur) -> StructOf("ConditionRHS", Capture("Compare", cmp))
          [] Taken(btw, cur) -> StructOf("ConditionRHS", btw)
          [] Taken(inl, cur) -> StructOf("ConditionRHS", inl)
          [] OTHER -> NoneTaken(cmp.st = "err" \/ btw.st = "err" \/ inl.st = "err", cur)

\* ConditionOperand as an older revision of the grammar had it, its right
\* hand side optional
ConditionOperandOptionalRHS(toks, cur) ==
    LET operand == Element("DocumentPath", toks, cur)
        rhs     == Element("ConditionRHS", toks, operand.cur)
    IN  CASE operand.st # "ok" -> operand
          [] Taken(rhs, operand.cur) ->
                 StructOf("ConditionOperand",
                          IF rhs.st = "ok"
                          THEN Ok(rhs.cur, ("Operand" :> operand.v) @@ ("ConditionRHS" :> rhs.v))
                          ELSE rhs)
          [] OTHER -> Ok(operand.cur, Struct("ConditionOperand", "Operand" :> operand.v))

ParseConditionOperand(toks, cur) ==
    LET operand == Element("DocumentPath", toks, cur)
        rhs     == Element("ConditionRHS", toks, operand.cur)
    IN  CASE operand.st # "ok" -> operand
          [] rhs.st # "ok"     -> Later(rhs, operand.cur)
          [] OTHER -> Ok(rhs.cur, Struct("ConditionOperand",
                             ("Operand" :> operand.v) @@ ("ConditionRHS" :> rhs.v)))

ParseFunctionArgument(toks, cur) ==
    LET path == Element("DocumentPath", toks, cur)
        val  == Element("Value", toks, cur)
    IN  CASE Taken(path, cur) -> StructOf("FunctionArgument", Capture("DocumentPath", path))
          [] Taken(val, cur)  -> StructOf("FunctionArgument", Capture("Value", val))
          [] OTHER -> NoneTaken(path.st = "err" \/ val.st = "err", cur)

ParseFunctionExpression(toks, cur) ==
    LET fn    == Token(toks, cur, {"Ident"})
        open  == Match(toks, fn.cur, "(")
        first == Element("FunctionArgument", toks, open.cur)
        more  == Repeat("CommaArgument", toks, first.cur)
        close == Match(toks, more.cur, ")")
    IN  CASE fn.st # "ok"    -> fn
          [] open.st # "ok"  -> Later(open, fn.cur)
          [] first.st # "ok" -> Later(first, open.cur)
          [] more.st # "ok"  -> more
          [] close.st # "ok" -> Later(close, more.cur)
          [] OTHER -> Ok(close.cur, Struct("FunctionExpression",
                             ("Function" :> fn.v) @@ ("Args" :> (<<first.v>> \o more.v))))

ParseNotCondition(toks, cur) ==
    LET cond == Element("Condition", toks, cur)
    IN  IF cond.st = "ok" THEN Ok(cond.cur, Struct("NotCondition", "Condition" :> cond.v))
        ELSE cond

ParseParenthesizedExpression(toks, cur) ==
    LET expr == Element("ConditionExpression", toks, cur)
    IN  IF expr.st = "ok"
        THEN Ok(expr.cur, Struct("ParenthesizedExpression", "ConditionExpression" :> expr.v))
        ELSE expr

\* "(" @@ ")" of Condition.Parenthesized
Parenthesized(toks, cur) ==
    LET open  == Match(toks, cur, "(")
        expr  == Element("ParenthesizedExpression", toks, open.cur)
        close == Match(toks, expr.cur, ")")
    IN  CASE open.st # "ok"  -> open
          [] expr.st # "ok"  -> Later(expr, open.cur)
          [] close.st # "ok" -> Later(close, expr.cur)
          [] OTHER -> Ok(close.cur, "Parenthesized" :> expr.v)

\* "NOT" @@ of Condition.Not
Not(toks, cur) ==
    LET kw  == Match(toks, cur, "NOT")
        neg == Element("NotCondition", toks, kw.cur)
    IN  IF kw.st = "ok" THEN Capture("Not", Later(neg, kw.cur)) ELSE kw

ParseCondition(toks, cur) ==
    LET par == Element("Parenthesized", toks, cur)
        not == Element("Not", toks, cur)
        opd == Element("ConditionOperand", toks, cur)
        fn  == Element("FunctionExpression", toks, cur)
    IN  CASE Taken(par, cur) -> StructOf("Condition", par)
          [] Taken(not, cur) -> StructOf("Condition", not)
          [] Taken(opd, cur) -> StructOf("Condition", Capture("Operand", opd))
          [] Taken(fn, cur)  -> StructOf("Condition", Capture("Function", fn))
          [] OTHER -> NoneTaken(par.st = "err" \/ not.st = "err"
                                  \/ opd.st = "err" \/ fn.st = "err", cur)

ParseAndExpression(toks, cur) ==
    LET first == Element("Condition", toks, cur)
        more  == Repeat("AndCondition", toks, first.cur)
    IN  CASE first.st # "ok" -> first
          [] more.st # "ok"  -> more
          [] OTHER -> Ok(more.cur, Struct("AndExpression", "And" :> (<<first.v>> \o more.v)))

ParseConditionExpression(toks, cur) ==
    LET first == Element("AndExpression", toks, cur)
        more  == Repeat("OrAndExpression", toks, first.cur)
    IN  CASE first.st # "ok" -> first
          [] more.st # "ok"  -> more
          [] OTHER -> Ok(more.cur, Struct("ConditionExpression",
                                          "Or" :> (<<first.v>> \o more.v)))

ParseProjectionColumn(toks, cur) ==
    LET fn   == Element("FunctionExpression", toks, cur)
        path == Element("DocumentPath", toks, cur)
    IN  CASE Taken(fn, cur)   -> StructOf("ProjectionColumn", Capture("Function", fn))
          [] Taken(path, cur) -> StructOf("ProjectionColumn", Capture("DocumentPath", path))
          [] OTHER -> NoneTaken(fn.st = "err" \/ path.st = "err", cur)

\* "document" "(" @"*" ")"
DocumentAll(toks, cur) ==
    LET doc   == Match(toks, cur, "document")
        open  == Match(toks, doc.cur, "(")
        inner == Match(toks, open.cur, "*")
        close == Match(toks, inner.cur, ")")
    IN  CASE doc.st # "ok"   -> doc
          [] open.st # "ok"  -> Later(open, doc.cur)
          [] inner.st # "ok" -> Later(inner, open.cur)
          [] OTHER -> Later(close, inner.cur)

\* the group  ( @"*" | "document" "(" @"*" ")" )  of ProjectionExpression
ProjectionAll(toks, cur) ==
    LET star == Match(toks, cur, "*")
        call == Element("DocumentAll", toks, cur)
    IN  CASE star.st = "ok"   -> Ok(star.cur, "All" :> TRUE)
          [] Taken(call, cur) -> IF call.st = "ok" THEN Ok(call.cur, "All" :> TRUE) ELSE call
          [] OTHER -> NoneTaken(call.st = "err", cur)

\* the alternative  @@ ( "," @@ )*  of ProjectionExpression
ProjectionColumns(toks, cur) ==
    LET first == Element("ProjectionColumn", toks, cur)
        more  == Repeat("CommaColumn", toks, first.cur)
    IN  CASE first.st # "ok" -> first
          [] more.st # "ok"  -> more
          [] OTHER -> Ok(more.cur, "Columns" :> (<<first.v>> \o more.v))

\* ProjectionExpression as it would be with an optional column list
ProjectionExpressionOptional(toks, cur) ==
    LET all  == Element("ProjectionAll", toks, cur)
        cols == Element("ProjectionColumns", toks, cur)
    IN  CASE Taken(all, cur) -> StructOf("ProjectionExpression", all)
          [] OTHER -> StructOf("ProjectionExpression", Optional(cols, cur))

ParseProjectionExpression(toks, cur) ==
    LET all  == Element("ProjectionAll", toks, cur)
        cols == Element("ProjectionColumns", toks, cur)
    IN  CASE Taken(all, cur)  -> StructOf("ProjectionExpression", all)
          [] Taken(cols, cur) -> StructOf("ProjectionExpression", cols)
          [] OTHER -> NoneTaken(all.st = "err" \/ cols.st = "err", cur)

\* the captures of  @Ident ( @"." @Ident )*  joined
Dotted(first, more) == first \o Flatten([i \in DOMAIN more |-> <<".">> \o more[i]])

\* ( @Ident ( @"." @Ident )* | @QuotedIdent ): the text for a string field
TableName(toks, cur) ==
    LET first  == Token(toks, cur, {"Ident"})
        more   == Repeat("DotIdent", toks, first.cur)
        quoted == Token(toks, cur, {"QuotedIdent"})
    IN  CASE first.st = "ok" /\ more.st = "ok" -> Ok(more.cur, Dotted(first.v, more.v))
          [] first.st = "ok" -> more
          [] OTHER -> quoted

\* the WHERE clause with a disjunction at its root, as the grammar would
\* be if the field were a ConditionExpression
SelectWhereOr(toks, cur) ==
    LET kw   == Match(toks, cur, "WHERE")
        cond == Element("ConditionExpression", toks, kw.cur)
    IN  CASE kw.st # "ok"   -> Ok(cur, NoFields)
          [] cond.st = "ok" -> Ok(cond.cur, "Where" :> cond.v)
          [] OTHER -> Optional(Later(cond, kw.cur), cur)

\* ( "WHERE" @@ )?
SelectWhere(toks, cur) ==
    LET kw   == Match(toks, cur, "WHERE")
        cond == Element("AndExpression", toks, kw.cur)
    IN  CASE kw.st # "ok"   -> Ok(cur, NoFields)
          [] cond.st = "ok" -> Ok(cond.cur, "Where" :> cond.v)
          [] OTHER -> Optional(Later(cond, kw.cur), cur)

\* ( "USE" "INDEX" "(" @Ident ")" )?
UseIndex(toks, cur) ==
    LET use   == Match(toks, cur, "USE")
        index == Match(toks, use.cur, "INDEX")
        open  == Match(toks, index.cur, "(")
        name  == Token(toks, open.cur, {"Ident"})
        close == Match(toks, name.cur, ")")
    IN  CASE use.st # "ok"   -> Ok(cur, NoFields)
          [] index.st # "ok" -> Optional(Later(index, use.cur), cur)
          [] open.st # "ok"  -> Optional(Later(open, index.cur), cur)
          [] name.st # "ok"  -> Optional(Later(name, open.cur), cur)
          [] close.st # "ok" -> Optional(Later(close, name.cur), cur)
          [] OTHER -> Ok(close.cur, "Index" :> name.v)

\* ( @"ASC" | @"DESC" )?
Direction(toks, cur) ==
    LET dir == OneOf(toks, cur, {"ASC", "DESC"})
    IN  IF dir.st = "ok"
        THEN Ok(dir.cur, "Descending" :> ScanDescendingCapture(<<dir.v>>))
        ELSE Ok(cur, NoFields)

\* ( "LIMIT" @Number )?; a Number that is no int is an error
Limit(toks, cur) ==
    LET kw == Match(toks, cur, "LIMIT")
        n  == Token(toks, kw.cur, {"Number"})
    IN  CASE kw.st # "ok" -> Ok(cur, NoFields)
          [] n.st # "ok"  -> Optional(Later(n, kw.cur), cur)
          [] ~ParseInt(n.v).ok -> Err(n.cur)
          [] OTHER -> Ok(n.cur, "Limit" :> ParseInt(n.v).n)

ParseSelect(toks, cur) ==
    LET proj  == Element("ProjectionExpression", toks, cur)
        from  == Match(toks, proj.cur, "FROM")
        table == Element("TableName", toks, from.cur)
        using == Element("UseIndex", toks, table.cur)
        where == Element("SelectWhere", toks, using.cur)
        desc  == Element("Direction", toks, where.cur)
        limit == Element("Limit", toks, desc.cur)
    IN  CASE proj.st # "ok"  -> proj
          [] from.st # "ok"  -> Later(from, proj.cur)
          [] table.st # "ok" -> Later(table, from.cur)
          [] using.st # "ok" -> using
          [] where.st # "ok" -> where
          [] limit.st # "ok" -> limit
          [] OTHER -> Ok(limit.cur, Struct("Select",
                 ("Projection" :> proj.v) @@ ("From" :> table.v)
                 @@ using.v @@ where.v @@ desc.v @@ limit.v))

\* InsertTerminal without the bar in front of Object: the object then
\* follows the last alternative of Value, the positional placeholder
InsertTerminalNoBar(toks, cur) ==
    LET val == Element("ValueAlternatives", toks, cur)
        obj == Element("JSONObject", toks, val.cur)
    IN  CASE val.st # "ok" -> val
          [] "PositionalPlaceholder" \notin DOMAIN val.v -> StructOf("InsertTerminal", val)
          [] obj.st # "ok" -> Later(obj, val.cur)
          [] OTHER -> Ok(obj.cur, Struct("InsertTerminal", val.v @@ ("Object" :> obj.v)))

\* InsertTerminal: the embedded Value, then Object
ParseInsertTerminal(toks, cur) ==
    LET val == Element("ValueAlternatives", toks, cur)
        obj == Element("JSONObject", toks, cur)
    IN  CASE val.st = "ok"   -> StructOf("InsertTerminal", val)
          [] Taken(obj, cur) -> StructOf("InsertTerminal", Capture("Object", obj))
          [] OTHER -> NoneTaken(val.st = "err" \/ obj.st = "err", cur)

\* "(" @@ ")" of Insert.Values
InsertRow(toks, cur) ==
    LET open  == Match(toks, cur, "(")
        row   == Element("InsertTerminal", toks, open.cur)
        close == Match(toks, row.cur, ")")
    IN  CASE open.st # "ok"  -> open
          [] row.st # "ok"   -> Later(row, open.cur)
          [] close.st # "ok" -> Later(close, row.cur)
          [] OTHER -> Ok(close.cur, row.v)

\* ( "RETURNING" @( "NONE" | "ALL_OLD" ) )?
Returning(toks, cur) ==
    LET kw   == Match(toks, cur, "RETURNING")
        what == OneOf(toks, kw.cur, {"NONE", "ALL_OLD"})
    IN  CASE kw.st # "ok"   -> Ok(cur, NoFields)
          [] what.st # "ok" -> Optional(Later(what, kw.cur), cur)
          [] OTHER -> Ok(what.cur, "Returning" :> what.v)

ParseInsert(toks, cur) ==
    LET into   == Match(toks, cur, "INTO")
        table  == Element("TableName", toks, into.cur)
        values == Match(toks, table.cur, "VALUES")
        first  == Element("InsertRow", toks, values.cur)
        more   == Repeat("CommaRow", toks, first.cur)
        ret    == Element("Returning", toks, more.cur)
    IN  CASE into.st # "ok"   -> into
          [] table.st # "ok"  -> Later(table, into.cur)
          [] values.st # "ok" -> Later(values, table.cur)
          [] first.st # "ok"  -> Later(first, values.cur)
          [] more.st # "ok"   -> more
          [] ret.st # "ok"    -> ret
          [] OTHER -> Ok(ret.cur, Struct("Insert",
                 ("Into" :> table.v) @@ ("Values" :> (<<first.v>> \o more.v)) @@ ret.v))

ParseProjection(toks, cur) ==
    LET keys    == Match(toks, cur, "KEYS")
        only    == Match(toks, keys.cur, "ONLY")
        all     == Match(toks, cur, "ALL")
        \* "INCLUDE" ( @(Ident | QuotedIdent) ( "," @(Ident | QuotedIdent) )* )
        include == Match(toks, cur, "INCLUDE")
        first   == Token(toks, include.cur, {"Ident", "QuotedIdent"})
        more    == Repeat("CommaName", toks, first.cur)
    IN  CASE keys.st = "ok" /\ only.st = "ok" -> Ok(only.cur, Struct("Projection", "KeysOnly" :> TRUE))
          [] all.st = "ok" -> Ok(all.cur, Struct("Projection", "All" :> TRUE))
          [] include.st = "ok" /\ first.st = "ok" /\ more.st = "ok" ->
                 Ok(more.cur, Struct("Projection", "Include" :> (<<first.v>> \o more.v)))
          [] include.st = "ok" /\ first.st = "ok" -> more
          [] OTHER -> NoneTaken(keys.st = "ok" \/ include.st = "ok", cur)

ParseProvisionedThroughput(toks, cur) ==
    LET prov  == Match(toks, cur, "PROVISIONED")
        thr   == Match(toks, prov.cur, "THROUGHPUT")
        read  == Match(toks, thr.cur, "READ")
        rcu   == Token(toks, read.cur, {"Number"})
        write == Match(toks, rcu.cur, "WRITE")
        wcu   == Token(toks, write.cur, {"Number"})
    IN  CASE prov.st # "ok"  -> prov
          [] thr.st # "ok"   -> Later(thr, prov.cur)
          [] read.st # "ok"  -> Later(read, thr.cur)
          [] rcu.st # "ok"   -> Later(rcu, read.cur)
          [] write.st # "ok" -> Later(write, rcu.cur)
          [] wcu.st # "ok"   -> Later(wcu, write.cur)
          [] ~ParseInt(rcu.v).ok \/ ~ParseInt(wcu.v).ok -> Err(wcu.cur)
          [] OTHER -> Ok(wcu.cur, Struct("ProvisionedThroughput",
                 ("ReadCapacityUnits" :> ParseInt(rcu.v).n)
                 @@ ("WriteCapacityUnits" :> ParseInt(wcu.v).n)))

\* key "(" @(Ident | QuotedIdent) ")" of the index structs
KeyName(key, toks, cur) ==
    LET kw    == Match(toks, cur, key)
        open  == Match(toks, kw.cur, "(")
        name  == Token(toks, open.cur, {"Ident", "QuotedIdent"})
        close == Match(toks, name.cur, ")")
    IN  CASE kw.st # "ok"    -> kw
          [] open.st # "ok"  -> Later(open, kw.cur)
          [] name.st # "ok"  -> Later(name, open.cur)
          [] close.st # "ok" -> Later(close, name.cur)
          [] OTHER -> Ok(close.cur, name.v)

\* scope "SECONDARY" "INDEX" @(Ident | QuotedIdent) of the index structs
IndexName(scope, toks, cur) ==
    LET kw    == Match(toks, cur, scope)
        sec   == Match(toks, kw.cur, "SECONDARY")
        index == Match(toks, sec.cur, "INDEX")
        name  == Token(toks, index.cur, {"Ident", "QuotedIdent"})
    IN  CASE kw.st # "ok"    -> kw
          [] sec.st # "ok"   -> Later(sec, kw.cur)
          [] index.st # "ok" -> Later(index, sec.cur)
          [] OTHER -> Later(name, index.cur)

ParseGlobalSecondaryIndex(toks, cur) ==
    LET name == Element("GlobalIndex", toks, cur)
        hash == Element("HashKey", toks, name.cur)
        sort == Element("RangeKey", toks, hash.cur)
        kw   == Match(toks, sort.cur, "PROJECTION")
        proj == Element("Projection", toks, kw.cur)
        prov == Element("ProvisionedThroughput", toks, proj.cur)
    IN  CASE name.st # "ok" -> name
          [] hash.st # "ok" -> Later(hash, name.cur)
          [] sort.st # "ok" -> Later(sort, hash.cur)
          [] kw.st # "ok"   -> Later(kw, sort.cur)
          [] proj.st # "ok" -> Later(proj, kw.cur)
          [] prov.st # "ok" -> Later(prov, proj.cur)
          [] OTHER -> Ok(prov.cur, Struct("GlobalSecondaryIndex",
                 ("Name" :> name.v) @@ ("PartitionKey" :> hash.v) @@ ("SortKey" :> sort.v)
                 @@ ("Projection" :> proj.v) @@ ("ProvisionedThroughput" :> prov.v)))

ParseLocalSecondaryIndex(toks, cur) ==
    LET name == Element("LocalIndex", toks, cur)
        sort == Element("RangeKey", toks, name.cur)
        kw   == Match(toks, sort.cur, "PROJECTION")
        proj == Element("Projection", toks, kw.cur)
    IN  CASE name.st # "ok" -> name
          [] sort.st # "ok" -> Later(sort, name.cur)
          [] kw.st # "ok"   -> Later(kw, sort.cur)
          [] proj.st # "ok" -> Later(proj, kw.cur)
          [] OTHER -> Ok(proj.cur, Struct("LocalSecondaryIndex",
                 ("Name" :> name.v) @@ ("SortKey" :> sort.v) @@ ("Projection" :> proj.v)))

\* ( @("HASH" | "RANGE") "KEY" )?
AttrKey(toks, cur) ==
    LET kind == OneOf(toks, cur, {"HASH", "RANGE"})
        kw   == Match(toks, kind.cur, "KEY")
    IN  CASE kind.st # "ok" -> Ok(cur, NoFields)
          [] kw.st # "ok"   -> Optional(Later(kw, kind.cur), cur)
          [] OTHER -> Ok(kw.cur, "Key" :> kind.v)

ParseTableAttr(toks, cur) ==
    LET name == Token(toks, cur, {"Ident", "QuotedIdent"})
        type == OneOf(toks, name.cur, {"STRING", "NUMBER", "BINARY"})
        key  == Element("AttrKey", toks, type.cur)
    IN  CASE name.st # "ok" -> name
          [] type.st # "ok" -> Later(type, name.cur)
          [] key.st # "ok"  -> key
          [] OTHER -> Ok(key.cur, Struct("TableAttr",
                 ("Name" :> name.v) @@ ("Type" :> type.v) @@ key.v))

ParseCreateTableEntry(toks, cur) ==
    LET gsi  == Element("GlobalSecondaryIndex", toks, cur)
        lsi  == Element("LocalSecondaryIndex", toks, cur)
        prov == Element("ProvisionedThroughput", toks, cur)
        attr == Element("TableAttr", toks, cur)
    IN  CASE Taken(gsi, cur)  -> StructOf("CreateTableEntry", Capture("GlobalSecondaryIndex", gsi))
          [] Taken(lsi, cur)  -> StructOf("CreateTableEntry", Capture("LocalSecondaryIndex", lsi))
          [] Taken(prov, cur) -> StructOf("CreateTableEntry", Capture("ProvisionedThroughput", prov))
          [] Taken(attr, cur) -> StructOf("CreateTableEntry", Capture("Attr", attr))
          [] OTHER -> NoneTaken(gsi.st = "err" \/ lsi.st = "err"
                                  \/ prov.st = "err" \/ attr.st = "err", cur)

ParseCreateTable(toks, cur) ==
    LET table == Token(toks, cur, {"Ident", "QuotedIdent"})
        open  == Match(toks, table.cur, "(")
        first == Element("CreateTableEntry", toks, open.cur)
        more  == Repeat("CommaEntry", toks, first.cur)
        close == Match(toks, more.cur, ")")
    IN  CASE table.st # "ok" -> table
          [] open.st # "ok"  -> Later(open, table.cur)
          [] first.st # "ok" -> Later(first, open.cur)
          [] more.st # "ok"  -> more
          [] close.st # "ok" -> Later(close, more.cur)
          [] OTHER -> Ok(close.cur, Struct("CreateTable",
                 ("Table" :> table.v) @@ ("Entries" :> (<<first.v>> \o more.v))))

\* A statement after the keywords that open it: kw is what the keywords
\* gave, body the struct of the statement, fld the field of the AST.
Statement(fld, body, kw, toks) ==
    IF kw.st # "ok" THEN kw
    ELSE Capture(fld, Later(Element(body, toks, kw.cur), kw.cur))

\* "CREATE" "TABLE"
CreateTableKeywords(toks, cur) ==
    LET create == Match(toks, cur, "CREATE")
    IN  IF create.st = "ok" THEN Later(Match(toks, create.cur, "TABLE"), create.cur)
        ELSE create

\* the four alternatives of AST
Statements(toks, cur) ==
    LET sel == Element("SelectStatement", toks, cur)
        ins == Element("InsertStatement", toks, cur)
        rep == Element("ReplaceStatement", toks, cur)
        crt == Element("CreateTableStatement", toks, cur)
    IN  CASE Taken(sel, cur) -> sel
          [] Taken(ins, cur) -> ins
          [] Taken(rep, cur) -> rep
          [] Taken(crt, cur) -> crt
          [] OTHER -> NoneTaken(sel.st = "err" \/ ins.st = "err"
                                  \/ rep.st = "err" \/ crt.st = "err", cur)

ParseAST(toks, cur) ==
    LET body == Element("Statements", toks, cur)
        semi == Optional(Match(toks, body.cur, ";"), body.cur)
    IN  CASE body.st # "ok" -> body
          [] OTHER -> Ok(semi.cur, Struct("AST", body.v))

\* "[" @Number "]" of PathFragment.Indexes, after the bracket
Index(toks, cur) ==
    LET n     == Token(toks, cur, {"Number"})
        close == Match(toks, n.cur, "]")
    IN  CASE n.st # "ok"     -> n
          [] close.st # "ok" -> Later(close, n.cur)
          [] OTHER -> Ok(close.cur, n.v)

\* The parser of an element of the grammar by its name: a struct, a group
\* of a tag, the element of a repeated group; any other name is a quoted
\* literal.
Element(kind, toks, cur) ==
    CASE kind = "AST"                   -> ParseAST(toks, cur)
      [] kind = "Statements"            -> Statements(toks, cur)
      [] kind = "SelectStatement"       ->
             Statement("Select", "Select", Match(toks, cur, "SELECT"), toks)
      [] kind = "InsertStatement"       ->
             Statement("Insert", "Insert", Match(toks, cur, "INSERT"), toks)
      [] kind = "ReplaceStatement"      ->
             Statement("Replace", "Insert", Match(toks, cur, "REPLACE"), toks)
      [] kind = "CreateTableStatement"  ->
             Statement("CreateTable", "CreateTable", CreateTableKeywords(toks, cur), toks)
      [] kind = "Select"                -> ParseSelect(toks, cur)
      [] kind = "Insert"                -> ParseInsert(toks, cur)
      [] kind = "CreateTable"           -> ParseCreateTable(toks, cur)
      [] kind \in {"CreateTableEntry", "CommaEntry"} -> ParseCreateTableEntry(toks, cur)
      [] kind = "GlobalSecondaryIndex"  -> ParseGlobalSecondaryIndex(toks, cur)
      [] kind = "LocalSecondaryIndex"   -> ParseLocalSecondaryIndex(toks, cur)
      [] kind = "ProvisionedThroughput" -> ParseProvisionedThroughput(toks, cur)
      [] kind = "Projection"            -> ParseProjection(toks, cur)
      [] kind = "TableAttr"             -> ParseTableAttr(toks, cur)
      [] kind = "GlobalIndex"           -> IndexName("GLOBAL", toks, cur)
      [] kind = "LocalIndex"            -> IndexName("LOCAL", toks, cur)
      [] kind = "HashKey"               -> KeyName("HASH", toks, cur)
      [] kind = "RangeKey"              -> KeyName("RANGE", toks, cur)
      [] kind = "ProjectionExpression"  -> ParseProjectionExpression(toks, cur)
      [] kind = "ProjectionAll"         -> ProjectionAll(toks, cur)
      [] kind = "DocumentAll"           -> DocumentAll(toks, cur)
      [] kind = "UseIndex"              -> UseIndex(toks, cur)
      [] kind = "Direction"             -> Direction(toks, cur)
      [] kind = "Limit"                 -> Limit(toks, cur)
      [] kind = "Returning"             -> Returning(toks, cur)
      [] kind = "AttrKey"               -> AttrKey(toks, cur)
      [] kind = "BetweenRange"          -> BetweenRange(toks, cur)
      [] kind = "InList"                -> InList(toks, cur)
      [] kind = "Parenthesized"         -> Parenthesized(toks, cur)
      [] kind = "Not"                   -> Not(toks, cur)
      [] kind = "ObjectEntries"         ->
             Entries("JSONObjectEntry", "CommaObjectEntry", toks, cur)
      [] kind = "ArrayEntries"          ->
             Entries("JSONValue", "CommaJSONValue", toks, cur)
      [] kind = "ProjectionColumns"     -> ProjectionColumns(toks, cur)
      [] kind \in {"ProjectionColumn", "CommaColumn"} -> ParseProjectionColumn(toks, cur)
      [] kind = "TableName"             -> TableName(toks, cur)
      [] kind = "SelectWhere"           -> SelectWhere(toks, cur)
      [] kind = "ConditionExpression"   -> ParseConditionExpression(toks, cur)
      [] kind \in {"AndExpression", "OrAndExpression"} -> ParseAndExpression(toks, cur)
      [] kind \in {"Condition", "AndCondition"} -> ParseCondition(toks, cur)
      [] kind = "ParenthesizedExpression" -> ParseParenthesizedExpression(toks, cur)
      [] kind = "NotCondition"          -> ParseNotCondition(toks, cur)
      [] kind = "ConditionOperand"      -> ParseConditionOperand(toks, cur)
      [] kind = "ConditionRHS"          -> ParseConditionRHS(toks, cur)
      [] kind = "Compare"               -> ParseCompare(toks, cur)
      [] kind = "Between"               -> ParseBetween(toks, cur)
      [] kind = "In"                    -> ParseIn(toks, cur)
      [] kind = "Operand"               -> ParseOperand(toks, cur)
      [] kind = "FunctionExpression"    -> ParseFunctionExpression(toks, cur)
      [] kind \in {"FunctionArgument", "CommaArgument"} -> ParseFunctionArgument(toks, cur)
      [] kind = "DocumentPath"          -> ParseDocumentPath(toks, cur)
      [] kind \in {"PathFragment", "DotFragment"} -> ParsePathFragment(toks, cur)
      [] kind = "Index"                 -> Index(toks, cur)
      [] kind = "DotIdent"              -> Token(toks, cur, {"Ident"})
      [] kind = "CommaName"             -> Token(toks, cur, {"Ident", "QuotedIdent"})
      [] kind \in {"InsertRow", "CommaRow"} -> InsertRow(toks, cur)
      [] kind = "InsertTerminal"        -> ParseInsertTerminal(toks, cur)
      [] kind \in {"Value", "CommaValue"} -> ParseValue(toks, cur)
      [] kind = "ValueAlternatives"     -> ValueAlternatives(toks, cur)
      [] kind = "Scalar"                -> Scalar(toks, cur)
      [] kind \in {"JSONValue", "CommaJSONValue"} -> ParseJSONValue(toks, cur)
      [] kind = "JSONObject"            -> ParseJSONObject(toks, cur)
      [] kind = "JSONArray"             -> ParseJSONArray(toks, cur)
      [] kind \in {"JSONObjectEntry", "CommaObjectEntry"} -> ParseJSONObjectEntry(toks, cur)
      [] OTHER                          -> Literal(toks, cur, kind)

\* what Parse gives for the tokens lx and the result r of the grammar on
\* them: an error when the text does not lex, the grammar does not match,
\* or tokens are left over
Outcome(lx, r) ==
    IF ~lx.ok THEN [run |-> TRUE, err |-> TRUE]
    ELSE IF r.st # "ok" \/ Peek(lx.toks, r.cur).type # "EOF"
    THEN [run |-> TRUE, err |-> TRUE]
    ELSE [run |-> TRUE, err |-> FALSE, ast |-> r.v]

\* the parser on what the lexer gave: the whole of the tokens is one AST
ParseTokens(lx) == Outcome(lx, Element("AST", lx.toks, 0))

\* Parse: the AST of a statement, or an error
Parse(s) == ParseTokens(Lex(s))
----------------------------------------------------------------------------
(* The String methods                                                      *)

\* What a String method gives: a text, or a panic
Text(t) == [panic |-> FALSE, text |-> t]

Panicked == [panic |-> TRUE, text |-> <<>>]

RECURSIVE NatDigits(_)
\* the decimal digits of a natural number
NatDigits(n) ==
    IF n < 10 THEN <<DigitChars[n + 1]>>
    ELSE NatDigits(n \div 10) \o <<DigitChars[(n % 10) + 1]>>

\* strconv.Itoa
Itoa(n) == IF n < 0 THEN <<"-">> \o NatDigits(0 - n) ELSE NatDigits(n)

\* n zero digits
Zeros(n) == [i \in 1..n |-> "0"]

\* %e of strconv.FormatFloat: d.ddde+xx, the exponent of two digits at least
FormatE(x) ==
    LET exp  == IF x.d = <<>> THEN 0 ELSE x.dp - 1
        mag  == IF exp < 0 THEN 0 - exp ELSE exp
        lead == IF x.d = <<>> THEN <<"0">> ELSE <<x.d[1]>>
        frac == IF Len(x.d) > 1 THEN <<".">> \o Tail(x.d) ELSE <<>>
    IN  lead \o frac \o <<"e", IF exp < 0 THEN "-" ELSE "+">>
        \o (IF mag < 10 THEN <<"0">> ELSE <<>>) \o NatDigits(mag)

\* %f of strconv.FormatFloat with the digits of the shortest form
FormatF(x) ==
    LET nd   == Len(x.d)
        int  == IF x.dp > 0
                THEN SubSeq(x.d, 1, IF x.dp < nd THEN x.dp ELSE nd)
                     \o Zeros(IF x.dp > nd THEN x.dp - nd ELSE 0)
                ELSE <<"0">>
        prec == IF nd > x.dp THEN nd - x.dp ELSE 0
        frac == [i \in 1..prec |-> IF x.dp + i >= 1 /\ x.dp + i <= nd
                                   THEN x.d[x.dp + i] ELSE "0"]
    IN  int \o (IF prec > 0 THEN <<".">> \o frac ELSE <<>>)

\* strconv.FormatFloat(f, 'g', -1, 64): with the shortest digits, %e is
\* used for an exponent below -4 or of 6 and more
FormatFloat(x) ==
    LET exp == x.dp - 1
    IN  (IF x.neg THEN <<"-">> ELSE <<>>)
        \o (IF exp < -4 \/ exp >= 6 THEN FormatE(x) ELSE FormatF(x))

RECURSIVE QuoteChars(_)
\* the escapes of strconv.Quote on printable text
QuoteChars(s) ==
    IF s = <<>> THEN <<>>
    ELSE (IF s[1] \in {"\"", "\\"} THEN <<"\\", s[1]>> ELSE <<s[1]>>) \o QuoteChars(Tail(s))

\* strconv.Quote
Quote(s) == <<"\"">> \o QuoteChars(s) \o <<"\"">>

\* strconv.FormatBool
FormatBool(b) == IF b THEN W("true") ELSE W("false")

\* the String methods over a slice: a panic in one is a panic of the whole
JoinPrinted(ps, open, sep, close) ==
    IF \E i \in DOMAIN ps : ps[i].panic THEN Panicked
    ELSE Text(open \o Join([i \in DOMAIN ps |-> ps[i].text], sep) \o close)

\* (*Scalar).String on the fields f of a struct that embeds Scalar
ScalarString(f) ==
    CASE "Number" \in DOMAIN f  -> Text(FormatFloat(f["Number"]))
      [] "Str" \in DOMAIN f     -> Text(Quote(f["Str"]))
      [] "Boolean" \in DOMAIN f -> Text(FormatBool(f["Boolean"]))
      [] "Null" \in DOMAIN f    -> Text(W("NULL"))
      [] OTHER -> Panicked

\* Value.String
ValueString(v) ==
    CASE "PlaceHolder" \in DOMAIN v.f           -> Text(v.f["PlaceHolder"])
      [] "PositionalPlaceholder" \in DOMAIN v.f -> Text(<<"?">>)
      [] OTHER -> ScalarString(v.f)

\* InsertTerminal has no String of its own: it is Value.String, promoted
InsertTerminalString(t) == ValueString(t)

\* JSONValue has no String of its own: it is (*Scalar).String, promoted
JSONValueString(v) == ScalarString(v.f)

\* the Entries of a JSONObject or JSONArray (nil when none matched)
EntriesOf(j) == IF Has(j, "Entries") THEN j.f["Entries"] ELSE <<>>

\* (*JSONObject).String
JSONObjectString(j) ==
    JoinPrinted([i \in DOMAIN EntriesOf(j) |->
                    LET entry == EntriesOf(j)[i]
                        val   == JSONValueString(entry.f["Value"])
                    IN  IF val.panic THEN Panicked
                        ELSE Text(Quote(entry.f["Key"]) \o <<":">> \o val.text)],
                <<"{">>, <<",">>, <<"}">>)

\* (*JSONArray).String
JSONArrayString(j) ==
    JoinPrinted([i \in DOMAIN EntriesOf(j) |-> JSONValueString(EntriesOf(j)[i])],
                <<"[">>, <<",">>, <<"]">>)

\* PathFragment.String
PathFragmentString(p) ==
    IF ~Has(p, "Indexes") THEN p.f["Symbol"]
    ELSE p.f["Symbol"]
         \o Flatten([i \in DOMAIN p.f["Indexes"] |->
                        <<"[">> \o Itoa(p.f["Indexes"][i]) \o <<"]">>])

\* DocumentPath.String
DocumentPathString(p) ==
    Text(Join([i \in DOMAIN p.f["Fragment"] |-> PathFragmentString(p.f["Fragment"][i])],
              <<".">>))

\* FunctionArgument.String
FunctionArgumentString(a) ==
    CASE Has(a, "DocumentPath") -> DocumentPathString(a.f["DocumentPath"])
      [] Has(a, "Value")        -> ValueString(a.f["Value"])
      [] OTHER -> Text(<<>>)

\* (*FunctionExpression).String
FunctionExpressionString(fn) ==
    JoinPrinted([i \in DOMAIN fn.f["Args"] |-> FunctionArgumentString(fn.f["Args"][i])],
                fn.f["Function"] \o <<"(">>, <<",", " ">>, <<")">>)

\* ProjectionColumn.String
ProjectionColumnString(c) ==
    CASE Has(c, "DocumentPath") -> DocumentPathString(c.f["DocumentPath"])
      [] Has(c, "Function")     -> FunctionExpressionString(c.f["Function"])
      [] OTHER -> Text(<<>>)

\* ProjectionExpression.String
ProjectionExpressionString(e) ==
    CASE Has(e, "All")      -> Text(<<>>)
      [] ~Has(e, "Columns") -> Panicked
      [] OTHER -> JoinPrinted([i \in DOMAIN e.f["Columns"] |->
                                  ProjectionColumnString(e.f["Columns"][i])],
                              <<>>, <<",", " ">>, <<>>)

----------------------------------------------------------------------------
(* The statements that are parsed                                          *)

\* most conditions joined by AND and OR in a WHERE clause
MaxConds == 2

\* A statement is written as words; the word under test (mid) stands
\* between the words before it (pre) and after it (post).  kind names the
\* AST node that mid is parsed into.
Stmt(kind, pre, mid, post) == [kind |-> kind, pre |-> pre, mid |-> mid, post |-> post]

WordsOf(st) == st.pre \o st.mid \o st.post

\* the text of words: a space between one word and the next
Spelled(ws) == Join([i \in DOMAIN ws |-> W(ws[i])], <<" ">>)

\* the words that the grammar writes in upper case
GrammarWords == DOMAIN SpellKeywords \cup DOMAIN SpellGrammar

\* the text of words with the words of the grammar in lower case
Recased(ws) ==
    Join([i \in DOMAIN ws |-> IF ws[i] \in GrammarWords THEN LowerText(W(ws[i])) ELSE W(ws[i])],
         <<" ">>)

Paths ==
    { <<"a">>, <<"a", ".", "b">>, <<"a", "[", "1", "]">>,
      <<"a", "[", "0", "]", "[", "12", "]", ".", "b">>,
      <<"~select~">>, <<"a", ".", "~from~", "[", "1", "]">>, <<"~a b~">> }

Calls ==
    { <<"f", "(", "a", ")">>, <<"f", "(", "a", ",", "1", ")">>,
      <<"size", "(", "a", ".", "b", "[", "1", "]", ",", "'x'", ")">>,
      <<"f", "(", ":", "p", ",", "?", ",", "TRUE", ",", "NULL", ")">>,
      <<"f", "(", "~select~", ")">>, <<"f", "(", ")">> }

Lists ==
    { <<"*">>, <<"document", "(", "*", ")">>, <<"a", ",", "b">>,
      <<"f", "(", "a", ")", ",", "a", ".", "b">> }

Numbers == {"1", "0", "10", "1.0", "1e2", "+5", "007", "-3", ".5", "12.50", "1e6", "0.00001"}

Strings == {"'x'", "\"x\"", "'a\"b'", "''", "'NULL'"}

Values ==
    { <<n>> : n \in Numbers \cup Strings }
    \cup { <<"TRUE">>, <<"true">>, <<"FALSE">>, <<"NULL">>, <<":", "p">>, <<"?">> }

Objects ==
    { <<"{", "}">>, <<"{", "a", ":", "1", "}">>,
      <<"{", "\"x\"", ":", "'x'", ",", "b", ":", "TRUE", ",", "}">>,
      <<"{", "a", ":", "1.0", ",", "b", ":", "NULL", "}">>,
      <<"{", "a", ":", "{", "}", "}">>,
      <<"{", "a", ":", "[", "1", ",", "'x'", "]", "}">>,
      <<"{", "a", ":", "[", "]", "}">>,
      <<"{", "a", ":", "{", "b", ":", "[", "{", "}", "]", "}", "}">> }

\* rows of an INSERT that are no single value or object
OtherRows ==
    { <<"?", "{", "}">>, <<"1", "{", "}">>, <<"{", "}", "{", "}">>, <<"[", "1", "]">>,
      <<>>, <<"{", "a", "1", "}">>, <<"{", "a", ":", ":", "p", "}">> }

SelectFrom == <<"SELECT", "a", "FROM", "t", "WHERE">>

\* nodes in a SELECT: a path, a function call, a projection, a value
NodeStmts ==
    { Stmt("path", <<"SELECT">>, p, <<"FROM", "t">>) : p \in Paths }
    \cup { Stmt("function", <<"SELECT">>, c, <<"FROM", "t">>) : c \in Calls }
    \cup { Stmt("projection", <<"SELECT">>, l, <<"FROM", "t">>) : l \in Lists \cup Paths \cup Calls }
    \cup { Stmt("value", SelectFrom \o <<"a", "=">>, v, <<>>) : v \in Values }

\* conditions that are a function call, and conditions on an operand
CallConds == { <<"f", "(", "a", ")">>, <<"a", "(", "b", ",", "1", ")">> }

OperandConds ==
    { <<"a", "=", "1">>, <<"a", ".", "b", "<", ":", "p">>,
      <<"a", "BETWEEN", "1", "AND", "b">>, <<"a", "IN", "(", "1", ",", "?", ")">>,
      <<"~select~", "[", "1", "]", "<>", "'x'">> }

\* what is neither: a path alone, a call that is compared, a value first
NoConds == { <<"a">>, <<"f", "(", "a", ")", "=", "1">>, <<"1", "=", "a">>, <<"a", "=">> }

Conds == CallConds \cup OperandConds

MoreConds == { <<"a", "=", "1">>, <<"f", "(", "a", ")">> }

RECURSIVE Chains(_)
\* n conditions joined by AND and OR
Chains(n) ==
    IF n = 1 THEN Conds
    ELSE { ch \o <<c>> \o a : ch \in Chains(n - 1), c \in {"AND", "OR"}, a \in MoreConds }

ChainsUpTo(n) == UNION { Chains(k) : k \in 1..n }

Wheres ==
    ChainsUpTo(MaxConds) \cup NoConds
    \cup { <<"(">> \o ch \o <<")">> : ch \in ChainsUpTo(MaxConds) }
    \cup { <<"NOT">> \o ch : ch \in ChainsUpTo(MaxConds) }
    \cup { <<"a", "=", "1", "AND", "(">> \o ch \o <<")">> : ch \in Chains(MaxConds) }

WhereStmts == { Stmt("where", SelectFrom, w, <<>>) : w \in Wheres }

Tails ==
    { <<>>, <<"ASC">>, <<"DESC">>, <<"LIMIT", "10">>, <<"DESC", "LIMIT", "1">>,
      <<";">>, <<"LIMIT", "1.5">> }

\* a SELECT with and without a projection, over tables, indexes, tails
SelectStmts ==
    { Stmt("select", <<"SELECT">>, p, from \o idx \o wh \o tail) :
        p \in {<<>>, <<"*">>, <<"a">>, <<"a", ",">>},
        from \in {<<"FROM", "t">>, <<"FROM", "a", ".", "~t~">>},
        idx \in {<<>>, <<"USE", "INDEX", "(", "idx", ")">>},
        wh \in {<<>>, <<"WHERE", "a", "=", "1">>},
        tail \in Tails }

InsertInto == <<"INSERT", "INTO", "t", "VALUES", "(">>

Rows == Objects \cup OtherRows \cup { <<"1">>, <<"'x'">>, <<"?">>, <<":", "p">>, <<"NULL">> }

InsertStmts ==
    { Stmt("row", InsertInto, r, post) :
        r \in Rows,
        post \in { <<")">>, <<")", "RETURNING", "ALL_OLD">>, <<")", ",", "(", "1", ")">> } }
    \cup { Stmt("row", <<"REPLACE", "INTO", "t", "VALUES", "(">>, r, <<")">>) : r \in Rows }
    \cup { Stmt(k, InsertInto, o, <<")">>) : k \in {"object", "entry", "array"}, o \in Objects }

Attrs ==
    { <<"a", "STRING">>, <<"a", "NUMBER", "HASH", "KEY">>,
      <<"~a b~", "BINARY", "RANGE", "KEY">>, <<"a", "STRING", "HASH">> }

Projections == { <<"KEYS", "ONLY">>, <<"ALL">>, <<"INCLUDE", "a", ",", "b">>, <<"KEYS">> }

Throughput == <<"PROVISIONED", "THROUGHPUT", "READ", "1", "WRITE", "10">>

TableEntries ==
    Attrs
    \cup { <<"LOCAL", "SECONDARY", "INDEX", "idx", "RANGE", "(", "b", ")", "PROJECTION">> \o p :
             p \in Projections }
    \cup { <<"GLOBAL", "SECONDARY", "INDEX", "idx", "HASH", "(", "a", ")",
             "RANGE", "(", "b", ")", "PROJECTION">> \o p \o Throughput : p \in Projections }
    \cup { Throughput }

CreateStmts ==
    { Stmt("create", <<"CREATE", "TABLE", "t", "(">>, e, <<")">>) : e \in TableEntries }
    \cup { Stmt("create", <<"CREATE", "TABLE", "t", "(">>, a \o <<",">> \o e, <<")">>) :
             a \in {<<"a", "STRING", "HASH", "KEY">>}, e \in TableEntries \ Attrs }

Inputs == NodeStmts \cup WhereStmts \cup SelectStmts \cup InsertStmts \cup CreateStmts
----------------------------------------------------------------------------
(* Parsing a statement, printing a node of it, parsing what was printed    *)

\* the fields that are slices; the node looked at is the first of a slice
SliceFields == {"Columns", "And", "Or", "Values", "Args", "Fragment", "Entries"}

RECURSIVE FieldAt(_, _)
\* the node that the field names in path lead to, from node v
FieldAt(v, path) ==
    IF path = <<>> THEN [ok |-> TRUE, v |-> v]
    ELSE IF ~Has(v, path[1]) THEN [ok |-> FALSE]
    ELSE FieldAt(IF path[1] \in SliceFields THEN v.f[path[1]][1] ELSE v.f[path[1]],
                 Tail(path))

\* the statement of an AST that holds rows
RowsOf(ast) == IF Has(ast, "Replace") THEN "Replace" ELSE "Insert"

\* where the node of each kind is in the AST
NodePath(kind, ast) ==
    CASE kind = "path"       -> <<"Select", "Projection", "Columns", "DocumentPath">>
      [] kind = "function"   -> <<"Select", "Projection", "Columns", "Function">>
      [] kind = "projection" -> <<"Select", "Projection">>
      [] kind = "value"      -> <<"Select", "Where", "And", "Operand", "ConditionRHS",
                                  "Compare", "Operand", "Value">>
      [] kind = "row"        -> <<RowsOf(ast), "Values">>
      [] kind = "object"     -> <<RowsOf(ast), "Values", "Object">>
      [] kind = "entry"      -> <<RowsOf(ast), "Values", "Object", "Entries", "Value">>
      [] kind = "array"      -> <<RowsOf(ast), "Values", "Object", "Entries", "Value",
                                  "Array">>
      [] OTHER               -> <<"None">>

Node(kind, ast) == FieldAt(ast, NodePath(kind, ast))

\* the String method of the node of each kind
StringOf(kind, node) ==
    CASE kind = "path"       -> DocumentPathString(node)
      [] kind = "function"   -> FunctionExpressionString(node)
      [] kind = "projection" -> ProjectionExpressionString(node)
      [] kind = "value"      -> ValueString(node)
      [] kind = "row"        -> InsertTerminalString(node)
      [] kind = "object"     -> JSONObjectString(node)
      [] kind = "entry"      -> JSONValueString(node)
      [] kind = "array"      -> JSONArrayString(node)

\* the driver is not part of a parser or lexer run
NoCall == [op |-> "none", err |-> FALSE]

NoneBuilt == [clients |-> 0, loaders |-> 0]

DriverIdle ==
    /\ drivers = <<>> /\ connectors = <<>> /\ conns = <<>>
    /\ built = NoneBuilt /\ lastCall = NoCall

ParserIdle == stmt = NotRun /\ res = NotRun /\ res2 = NotRun
              /\ printed = NotRun /\ res3 = NotRun

Init ==
    /\ stmt \in Inputs
    /\ src = Spelled(WordsOf(stmt))
    /\ lexed = NotRun /\ res = NotRun /\ res2 = NotRun
    /\ printed = NotRun /\ res3 = NotRun
    /\ DriverIdle

\* what a run of the lexer leaves in lexed
Lexed(lx) == [run |-> TRUE, ok |-> lx.ok, toks |-> lx.toks]

\* Parse(src)
ParseStmt ==
    /\ ~res.run
    /\ lexed' = Lexed(Lex(src))
    /\ res' = ParseTokens(lexed')
    /\ UNCHANGED <<src, stmt, res2, printed, res3, driverVars>>

\* Parse of the same statement with the words of the grammar in lower case
ParseRecased ==
    /\ res.run /\ ~res2.run
    /\ res2' = Parse(Recased(WordsOf(stmt)))
    /\ UNCHANGED <<src, lexed, stmt, res, printed, res3, driverVars>>

\* what a String method leaves in printed
Printed(out) == [run |-> TRUE, panic |-> out.panic, text |-> out.text]

\* the node of the kind of statement st in an AST, printed
NodeString(st, node) == Printed(StringOf(st.kind, node.v))

\* String() of the node under test of an accepted statement
PrintNode ==
    /\ res.run /\ ~res.err /\ ~printed.run
    /\ Node(stmt.kind, res.ast).ok
    /\ printed' = NodeString(stmt, Node(stmt.kind, res.ast))
    /\ UNCHANGED <<src, lexed, stmt, res, res2, res3, driverVars>>

\* the kinds of node whose text (mid) is all of the node: what is printed
\* can stand in its place
Replaceable == {"path", "function", "projection", "value", "row", "object"}

\* the statement with the printed text in the place of the node's text
Reprinted == Join(<<Spelled(stmt.pre), printed.text, Spelled(stmt.post)>>, <<" ">>)

\* Parse of the statement as re-printed
Reparse ==
    /\ printed.run /\ ~printed.panic /\ ~res3.run
    /\ stmt.kind \in Replaceable
    /\ res3' = Parse(Reprinted)
    /\ UNCHANGED <<src, lexed, stmt, res, res2, printed, driverVars>>

Next == ParseStmt \/ ParseRecased \/ PrintNode \/ Reparse

Spec == Init /\ [][Next]_vars

----------------------------------------------------------------------------
(* The lexer on a keyword that runs on into more identifier characters     *)

\* most characters after the keyword
MaxSuffixLen == 2

SuffixChars == {"E", "D", "_", "1"}

RECURSIVE Suffixes(_)
\* the texts of n suffix characters
Suffixes(n) ==
    IF n = 0 THEN {<<>>}
    ELSE { s \o <<c>> : s \in Suffixes(n - 1), c \in SuffixChars }

SuffixesUpTo(n) == UNION { Suffixes(k) : k \in 0..n }

\* a word as written in upper case, in lower case and capitalised
Casings(w) == { w, LowerText(w), <<w[1]>> \o LowerText(Tail(w)) }

KeywordCasings == UNION { Casings(KeywordTexts[i]) : i \in DOMAIN KeywordTexts }

LexInputs == { k \o s : k \in KeywordCasings, s \in SuffixesUpTo(MaxSuffixLen) }

InitLex ==
    /\ src \in LexInputs
    /\ lexed = NotRun
    /\ ParserIdle
    /\ DriverIdle

\* the lexer on src
LexInput ==
    /\ ~lexed.run
    /\ lexed' = Lexed(Lex(src))
    /\ UNCHANGED <<src, parserVars, driverVars>>

NextLex == LexInput

SpecLex == InitLex /\ [][NextLex]_vars

----------------------------------------------------------------------------
(* The driver                                                              *)

MaxDrivers == 2

MaxConnectors == 2

MaxConns == 3

\* sql.Register("dynamodb", &Driver{}): a Driver without a Session
Registered == [session |-> FALSE]

InitDriver ==
    /\ src = <<>> /\ lexed = NotRun
    /\ ParserIdle
    /\ drivers = <<Registered>>
    /\ connectors = <<>>
    /\ conns = <<>>
    /\ built = NoneBuilt
    /\ lastCall = NoCall

\* New(cfg): a Driver with the Session of cfg, or with none
New(session) ==
    /\ Len(drivers) < MaxDrivers
    /\ drivers' = Append(drivers, [session |-> session])
    /\ lastCall' = [op |-> "New", err |-> FALSE]
    /\ UNCHANGED <<src, lexed, parserVars, connectors, conns, built>>

\* the connector that OpenConnector of driver d builds: a new client and a
\* new table loader; by records the driver whose OpenConnector built it
NewConnector(d) ==
    [driver |-> d, dynamo |-> built.clients + 1, tables |-> built.loaders + 1, by |-> d]

\* session.NewSession is called when the Driver has no Session, and it
\* may fail
SessionMayFail(d) == IF drivers[d].session THEN {FALSE} ELSE {FALSE, TRUE}

\* a Connect that builds a table loader of its own for the connection
NewConnOwnLoader(c, from) == [dynamo |-> c.dynamo, tables |-> c.tables + 1, from |-> from]

\* the connection that Connect builds from a connector; from records the
\* connector
NewConn(c, from) == [dynamo |-> c.dynamo, tables |-> c.tables, from |-> from]

\* (*Driver).OpenConnector
OpenConnector(d) ==
    /\ Len(connectors) < MaxConnectors
    /\ \E failed \in SessionMayFail(d) :
         IF failed
         THEN /\ lastCall' = [op |-> "OpenConnector", err |-> TRUE]
              /\ UNCHANGED <<connectors, built>>
         ELSE /\ connectors' = Append(connectors, NewConnector(d))
              /\ built' = [clients |-> built.clients + 1, loaders |-> built.loaders + 1]
              /\ lastCall' = [op |-> "OpenConnector", err |-> FALSE]
    /\ UNCHANGED <<src, lexed, parserVars, drivers, conns>>

\* (*connector).Connect
Connect(c) ==
    /\ Len(conns) < MaxConns
    /\ conns' = Append(conns, NewConn(connectors[c], c))
    /\ lastCall' = [op |-> "Connect", err |-> FALSE]
    /\ UNCHANGED <<src, lexed, parserVars, drivers, connectors, built>>

\* (*Driver).Open: OpenConnector, and Connect on what it returned
Open(d) ==
    /\ Len(connectors) < MaxConnectors
    /\ Len(conns) < MaxConns
    /\ \E failed \in SessionMayFail(d) :
         IF failed
         THEN /\ lastCall' = [op |-> "Open", err |-> TRUE]
              /\ UNCHANGED <<connectors, conns, built>>
         ELSE /\ connectors' = Append(connectors, NewConnector(d))
              /\ built' = [clients |-> built.clients + 1, loaders |-> built.loaders + 1]
              /\ conns' = Append(conns, NewConn(NewConnector(d), Len(connectors) + 1))
              /\ lastCall' = [op |-> "Open", err |-> FALSE]
    /\ UNCHANGED <<src, lexed, parserVars, drivers>>

\* connector.Driver()
ConnectorDriver(c) == connectors[c].driver

NextDriver ==
    \/ \E session \in BOOLEAN : New(session)
    \/ \E d \in DOMAIN drivers : OpenConnector(d)
    \/ \E c \in DOMAIN connectors : Connect(c)
    \/ \E d \in DOMAIN drivers : Open(d)

SpecDriver == InitDriver /\ [][NextDriver]_vars
----------------------------------------------------------------------------
(* What the statements, the lexer and the driver are checked for           *)

\* the token is the keyword w, in any letter case
IsKeyword(tok, w) == tok.type = "Keyword" /\ EqualFold(tok.value, W(w))

\* the token is the operator text o
IsOperator(tok, o) == tok.type = "Operators" /\ tok.value = <<o>>

\* the fields whose value is a struct, and those whose value is a slice of
\* structs; Function is a name in FunctionExpression and a struct elsewhere
StructFields ==
    << "Select", "Insert", "Replace", "CreateTable", "Projection", "Where",
       "Parenthesized", "Not", "Operand", "Function", "ConditionRHS", "Compare",
       "Between", "In", "Start", "End", "Value", "SymbolRef", "DocumentPath",
       "Condition", "ConditionExpression", "Object", "Array", "Attr",
       "GlobalSecondaryIndex", "LocalSecondaryIndex", "ProvisionedThroughput" >>

SliceStructFields == << "Columns", "And", "Or", "Values", "Args", "Fragment", "Entries" >>

\* the structs in field fld of node n, in order
StructsIn(n, fld, slice) ==
    CASE ~Has(n, fld) -> <<>>
      [] n.type = "FunctionExpression" /\ fld = "Function" -> <<>>
      [] slice -> n.f[fld]
      [] OTHER -> <<n.f[fld]>>

\* the structs that node n points to
Children(n) ==
    Flatten([i \in DOMAIN StructFields |-> StructsIn(n, StructFields[i], FALSE)])
    \o Flatten([i \in DOMAIN SliceStructFields |-> StructsIn(n, SliceStructFields[i], TRUE)])

RECURSIVE NodesUnder(_, _, _)
\* Every struct of the tree under the nodes ns, whose parent is of type
\* parent: the type of each, the fields set in it, the type of its parent.
NodesUnder(parent, ns, k) ==
    IF k > Len(ns) THEN <<>>
    ELSE <<[type |-> ns[k].type, set |-> DOMAIN ns[k].f, in |-> parent]>>
         \o NodesUnder(ns[k].type, Children(ns[k]), 1)
         \o NodesUnder(parent, ns, k + 1)

NodesOf(ast) == NodesUnder("", <<ast>>, 1)

\* the fields of each struct that is a union of alternatives
UnionFields(type) ==
    CASE type = "AST" -> {"Select", "Insert", "Replace", "CreateTable"}
      [] type = "Condition" -> {"Parenthesized", "Not", "Operand", "Function"}
      [] type = "ConditionRHS" -> {"Compare", "Between", "In"}
      [] type = "Operand" -> {"Value", "SymbolRef"}
      [] type = "Value" ->
           {"Number", "Str", "Boolean", "Null", "PlaceHolder", "PositionalPlaceholder"}
      [] type = "InsertTerminal" ->
           {"Number", "Str", "Boolean", "Null", "PlaceHolder", "PositionalPlaceholder",
            "Object"}
      [] OTHER -> {}

\* ws begins with the words p
IsPrefix(p, ws) == Len(ws) >= Len(p) /\ SubSeq(ws, 1, Len(p)) = p

\* C1: a statement that Parse accepts is accepted with an equal AST when
\* the words of the grammar in it are written in lower case.
KeywordsCaseInsensitive ==
    res.run /\ res2.run /\ ~res.err => ~res2.err /\ res2.ast = res.ast

\* src is a keyword of the lexer, in some letter case, and after it one or
\* more identifier characters
KeywordThenSuffix ==
    \E i \in DOMAIN KeywordTexts :
        /\ Len(src) > Len(KeywordTexts[i])
        /\ HasPrefixFold(src, KeywordTexts[i])
        /\ \A j \in (Len(KeywordTexts[i]) + 1)..Len(src) : src[j] \in WordChars

\* C2: a keyword directly followed by identifier characters is lexed as
\* exactly one Ident token that holds all of the text, never as a Keyword
\* token and another token.
KeywordsWholeWords ==
    lexed.run /\ KeywordThenSuffix =>
        lexed.ok /\ lexed.toks = <<[type |-> "Ident", value |-> src]>>

\* the lexer ran on INDEXED
LexedINDEXED == lexed.run /\ lexed.ok /\ src = W("INDEX") \o <<"E", "D">>

\* the kinds of node that are printed and parsed again
RoundTripKinds == {"path", "projection", "function", "value", "object"}

\* C3: a path, projection, call, value or JSON object of an accepted
\* statement, printed by its String method and parsed again in the same
\* place, gives an AST equal to the first.
PrintParseRoundTrip ==
    res3.run /\ stmt.kind \in RoundTripKinds => ~res3.err /\ res3.ast = res.ast

\* the last token of the statement, where the value of a comparison stands
LastToken == lexed.toks[Len(lexed.toks)]

\* C4: the String method of a value that was captured from a Number token
\* gives the text of the token, character for character.
NumberKeepsSourceText ==
    printed.run /\ stmt.kind = "value" /\ LastToken.type = "Number" =>
        ~printed.panic /\ printed.text = LastToken.value

\* the statement begins SELECT FROM
SelectFromFirst ==
    /\ Len(lexed.toks) >= 2
    /\ IsKeyword(lexed.toks[1], "SELECT")
    /\ IsKeyword(lexed.toks[2], "FROM")

\* the projection of a Select names all attributes or at least one column
HasProjection(sel) ==
    /\ Has(sel, "Projection")
    /\ \/ Has(sel.f["Projection"], "All")
       \/ /\ Has(sel.f["Projection"], "Columns")
          /\ Len(sel.f["Projection"].f["Columns"]) >= 1

\* C5: a statement that begins SELECT FROM is rejected with a parse error,
\* and the Select of every AST returned without error has All set or at
\* least one column.
EmptyProjectionRejected ==
    res.run =>
        /\ SelectFromFirst => res.err
        /\ ~res.err /\ Has(res.ast, "Select") => HasProjection(res.ast.f["Select"])

\* a SELECT FROM t with clauses after the table was parsed and rejected
SelectFromTailRejected ==
    res.run /\ res.err /\ SelectFromFirst /\ Len(lexed.toks) > 3

\* the first condition of the WHERE clause of an accepted SELECT
FirstCondition == res.ast.f["Select"].f["Where"].f["And"][1]

\* the WHERE clause begins with a call: an identifier and then (
CallFirst == \E c \in CallConds : IsPrefix(c, stmt.mid)

\* the WHERE clause begins with a path and then a comparison, BETWEEN or IN
OperandFirst == \E c \in OperandConds : IsPrefix(c, stmt.mid)

\* the WHERE clause is well-formed conditions of both forms joined by AND
Conjunction == stmt.mid \in ChainsUpTo(MaxConds) /\ "OR" \notin Range(stmt.mid)

\* C6: in a WHERE clause a condition that begins with an identifier and (
\* is parsed as Condition.Function with Operand nil, one that begins with
\* a path and a comparison, BETWEEN or IN as Condition.Operand with
\* Function nil, and conditions of the two forms joined by AND are accepted.
LookaheadRoutesConditions ==
    res.run /\ stmt.kind = "where" =>
        /\ Conjunction => ~res.err
        /\ ~res.err /\ CallFirst =>
             Has(FirstCondition, "Function") /\ ~Has(FirstCondition, "Operand")
        /\ ~res.err /\ OperandFirst =>
             Has(FirstCondition, "Operand") /\ ~Has(FirstCondition, "Function")

\* a WHERE clause of a call and then a comparison was accepted
CallThenOperandAccepted ==
    /\ res.run /\ ~res.err /\ stmt.kind = "where"
    /\ CallFirst /\ Len(FirstCondition.f["Function"].f["Args"]) >= 1
    /\ Len(res.ast.f["Select"].f["Where"].f["And"]) = 2
    /\ Has(res.ast.f["Select"].f["Where"].f["And"][2], "Operand")

\* how many of the first i tokens are the operator o
CountUpTo(toks, i, o) == Cardinality({j \in 1..i : IsOperator(toks[j], o)})

\* an OR of the statement stands outside every pair of parentheses
TopLevelOr ==
    \E i \in DOMAIN lexed.toks :
        /\ IsKeyword(lexed.toks[i], "OR")
        /\ CountUpTo(lexed.toks, i, "(") = CountUpTo(lexed.toks, i, ")")

\* of the nodes ns every ConditionExpression is in a ParenthesizedExpression
OrsParenthesized(ns) ==
    \A i \in DOMAIN ns :
        ns[i].type = "ConditionExpression" => ns[i].in = "ParenthesizedExpression"

\* C7: the WHERE clause of an accepted SELECT is an AndExpression, a
\* ConditionExpression (the OR of conjunctions) is found only in a
\* ParenthesizedExpression, and a statement with an OR outside of
\* parentheses is rejected with a parse error.
WhereRootIsConjunction ==
    res.run =>
        /\ TopLevelOr => res.err
        /\ ~res.err /\ Has(res.ast, "Select") /\ Has(res.ast.f["Select"], "Where") =>
             /\ res.ast.f["Select"].f["Where"].type = "AndExpression"
             /\ OrsParenthesized(NodesOf(res.ast))

\* a WHERE clause with an OR outside of parentheses was parsed and rejected
TopLevelOrRejected ==
    res.run /\ res.err /\ stmt.kind = "where" /\ TopLevelOr

\* exactly one of the alternatives of a union is set in the node
ExactlyOne(node) ==
    UnionFields(node.type) # {} => Cardinality(node.set \cap UnionFields(node.type)) = 1

AllUnions(ns) == \A i \in DOMAIN ns : ExactlyOne(ns[i])

\* C8: in every AST returned without error exactly one alternative is set
\* in the AST, in every Condition, ConditionRHS, Operand and Value, and in
\* every row of an INSERT (a value or a JSON object).
NodesAreUnions ==
    res.run /\ ~res.err => AllUnions(NodesOf(res.ast))

\* an INSERT whose row is a JSON object was accepted
ObjectRowAccepted ==
    /\ res.run /\ ~res.err /\ Has(res.ast, "Insert")
    /\ Has(res.ast.f["Insert"].f["Values"][1], "Object")

\* the kinds of node of an INSERT that are printed
JSONKinds == {"object", "array", "entry", "row"}

\* C9: String() of a JSON object, JSON array, JSON value and INSERT row of
\* an accepted statement returns text and does not panic.
PrintingNeverPanics ==
    printed.run /\ stmt.kind \in JSONKinds => ~printed.panic

\* C10: every connection holds the client and the table loader of the
\* connector that made it, two connectors never share a table loader,
\* Connect returns no error, and the Driver of a connector is the Driver
\* whose OpenConnector made it.
ConnectionsShareConnectorState ==
    /\ \A k \in DOMAIN conns :
          /\ conns[k].from \in DOMAIN connectors
          /\ conns[k].dynamo = connectors[conns[k].from].dynamo
          /\ conns[k].tables = connectors[conns[k].from].tables
    /\ \A i, j \in DOMAIN connectors : i # j => connectors[i].tables # connectors[j].tables
    /\ \A i \in DOMAIN connectors : ConnectorDriver(i) = connectors[i].by
    /\ lastCall.op = "Connect" => ~lastCall.err

\* two connections were made from one connector, and there is a second
\* connector
TwoConnsOneConnector ==
    /\ Len(connectors) >= 2
    /\ lastCall.op = "Connect"
    /\ \E k1, k2 \in DOMAIN conns : k1 # k2 /\ conns[k1].from = conns[k2].from
====
